---------------------------- MODULE Spec2Model ----------------------------
(***************************************************************************)
(* envtui: the ChangeStack undo/redo history, the EnvFile document model,  *)
(* the backup-then-rename WriteFile protocol and the application Model     *)
(* that ties them together.                                                *)
(*                                                                         *)
(* Go strings are modelled as sequences of one-character strings, Go       *)
(* slices as sequences (1-based here, 0-based in the source; the cursor    *)
(* ChangeStack.current keeps the source's 0-based value, -1 when empty).   *)
(***************************************************************************)
EXTENDS Integers, Sequences, FiniteSets, TLC

VARIABLES
    changeStack,       \* Model.changeStack: [changes, current, maxSize]
    result,            \* the last direct call of an API and what it returned (SpecStack, SpecDoc, SpecMem, SpecList)
    envFiles,          \* Model.envFiles: sequence of [Path, Entries]; Entries holds addresses in SpecMem
    currentFileIndex,  \* Model.currentFileIndex (1-based here)
    listView,          \* Model.listView.entries: the entry pointers the list shows
    viewMode,          \* Model.viewMode
    err,               \* Model.err
    disk,              \* the directory: per path the target file, its .tmp sibling and its backups; in SpecList, its file names
    clock,             \* time.Now() at one-second resolution
    wf,                \* the frame of the WriteFile call in progress (SpecWrite)
    prior,             \* per recorded change, the document just before the action it records
    failures,          \* the I/O calls that have failed so far
    edits,             \* the add, update and delete actions taken so far
    heap,              \* the Entry objects allocated so far, by address (SpecMem)
    originalStates,    \* Model.originalStates: the clones taken at load
    rf                 \* the frame of the RestoreBackup call in progress (SpecRestore)

vars == <<changeStack, result, envFiles, currentFileIndex, listView, viewMode,
          err, disk, clock, wf, prior, failures, edits, heap, originalStates, rf>>

-----------------------------------------------------------------------------
(* Bounds of the model *)

MaxCapacity == 3

MaxClock == 1

MaxFailures == 1

MaxEntries == 2

MaxEdits == 2

\* The longest document SpecDoc starts from
MaxDocLen == 3

\* The most Entry objects SpecMem allocates
MaxHeap == 9

\* The most lines of the files SpecParse starts from
MaxLines == 2

\* The most times SpecParse writes the file back
MaxWrites == 1

-----------------------------------------------------------------------------
(* internal/model: Entry and Change *)

KeyValueEntry == "KeyValueEntry"
CommentEntry == "CommentEntry"
BlankEntry == "BlankEntry"

ChangeTypeAdd == "ChangeTypeAdd"
ChangeTypeUpdate == "ChangeTypeUpdate"
ChangeTypeDelete == "ChangeTypeDelete"

ChangeTypes == {ChangeTypeAdd, ChangeTypeUpdate, ChangeTypeDelete}

\* An Entry value with every field of the struct.
Entry(type, key, value, comment, line, exported, isSecret) ==
    [Type |-> type, Key |-> key, Value |-> value, Comment |-> comment,
     Line |-> line, Exported |-> exported, IsSecret |-> isSecret]

\* A Change value; Entry is the copy TrackChange allocates, so it is held by value.
Change(type, filePath, entry, oldValue) ==
    [Type |-> type, FilePath |-> filePath, Entry |-> entry, OldValue |-> oldValue]

\* The nil *Entry and the nil *Change (what Undo and Redo return with ok = false).
EnvFile(path, entries) == [Path |-> path, Entries |-> entries]

NoEntry == Entry("nil", <<>>, <<>>, <<>>, 0, FALSE, FALSE)

NoChange == Change("nil", "", NoEntry, <<>>)

-----------------------------------------------------------------------------
(* internal/model/changestack.go *)

NewChangeStack(maxSize) ==
    [changes |-> <<>>, current |-> -1, maxSize |-> maxSize]

\* cs.changes[:cs.current+1] when the cursor is not at the end
TruncateRedo(cs) ==
    IF cs.current < Len(cs.changes) - 1
    THEN SubSeq(cs.changes, 1, cs.current + 1)
    ELSE cs.changes

\* Push without the redo-tail truncation.
PushNoTruncate(cs, change) ==
    LET appended == Append(cs.changes, change)
        cur == cs.current + 1
    IN IF Len(appended) > cs.maxSize
       THEN [cs EXCEPT !.changes = Tail(appended), !.current = cur - 1]
       ELSE [cs EXCEPT !.changes = appended, !.current = cur]

\* Push whose eviction forgets to move the cursor down.
PushNoShift(cs, change) ==
    LET appended == Append(TruncateRedo(cs), change)
        cur == cs.current + 1
    IN IF Len(appended) > cs.maxSize
       THEN [cs EXCEPT !.changes = Tail(appended), !.current = cur]
       ELSE [cs EXCEPT !.changes = appended, !.current = cur]

\* Push whose eviction drops the newest change instead of the oldest.
PushEvictNewest(cs, change) ==
    LET appended == Append(TruncateRedo(cs), change)
        cur == cs.current + 1
    IN IF Len(appended) > cs.maxSize
       THEN [cs EXCEPT !.changes = SubSeq(appended, 1, Len(appended) - 1),
                       !.current = cur - 1]
       ELSE [cs EXCEPT !.changes = appended, !.current = cur]

Push(cs, change) ==
    LET appended == Append(TruncateRedo(cs), change)
        cur == cs.current + 1
    IN IF Len(appended) > cs.maxSize
       THEN [cs EXCEPT !.changes = Tail(appended), !.current = cur - 1]
       ELSE [cs EXCEPT !.changes = appended, !.current = cur]

\* CanRedo that also answers true at the head of the history.
CanRedoAtHead(cs) == cs.current < Len(cs.changes)

\* Undo that drops the change it returns from the history.
UndoPops(cs) ==
    IF cs.current < 0
    THEN [cs |-> cs, change |-> NoChange, ok |-> FALSE]
    ELSE [cs |-> [cs EXCEPT !.current = cs.current - 1,
                            !.changes = SubSeq(cs.changes, 1, cs.current)],
          change |-> cs.changes[cs.current + 1], ok |-> TRUE]

\* Redo that returns the newest change of the history, not the next one.
RedoReturnsNewest(cs) ==
    IF cs.current >= Len(cs.changes) - 1
    THEN [cs |-> cs, change |-> NoChange, ok |-> FALSE]
    ELSE [cs |-> [cs EXCEPT !.current = cs.current + 1],
          change |-> cs.changes[Len(cs.changes)], ok |-> TRUE]

\* Redo that returns the next change and leaves the cursor where it is.
RedoKeepsCursor(cs) ==
    IF cs.current >= Len(cs.changes) - 1
    THEN [cs |-> cs, change |-> NoChange, ok |-> FALSE]
    ELSE [cs |-> cs, change |-> cs.changes[cs.current + 2], ok |-> TRUE]

CanUndo(cs) == cs.current >= 0

CanRedo(cs) == cs.current < Len(cs.changes) - 1

\* Undo: [cs, change, ok]
Undo(cs) ==
    IF cs.current < 0
    THEN [cs |-> cs, change |-> NoChange, ok |-> FALSE]
    ELSE [cs |-> [cs EXCEPT !.current = cs.current - 1],
          change |-> cs.changes[cs.current + 1], ok |-> TRUE]

\* Redo: [cs, change, ok]
Redo(cs) ==
    IF cs.current >= Len(cs.changes) - 1
    THEN [cs |-> cs, change |-> NoChange, ok |-> FALSE]
    ELSE [cs |-> [cs EXCEPT !.current = cs.current + 1],
          change |-> cs.changes[cs.current + 2], ok |-> TRUE]

Clear(cs) == [cs EXCEPT !.changes = <<>>, !.current = -1]

-----------------------------------------------------------------------------
(* Strings *)

LowerLetters == <<"a","b","c","d","e","f","g","h","i","j","k","l","m",
                  "n","o","p","q","r","s","t","u","v","w","x","y","z">>

UpperLetters == <<"A","B","C","D","E","F","G","H","I","J","K","L","M",
                  "N","O","P","Q","R","S","T","U","V","W","X","Y","Z">>

ToUpperChar(c) ==
    IF \E i \in DOMAIN LowerLetters : LowerLetters[i] = c
    THEN UpperLetters[CHOOSE i \in DOMAIN LowerLetters : LowerLetters[i] = c]
    ELSE c

\* strings.ToUpper
ToUpper(s) == [i \in 1..Len(s) |-> ToUpperChar(s[i])]

\* strings.Contains
Contains(s, sub) ==
    \E i \in 0..(Len(s) - Len(sub)) : SubSeq(s, i + 1, i + Len(sub)) = sub

-----------------------------------------------------------------------------
(* internal/parser/parser.go: secret classification *)

secretKeywords ==
    << <<"P","A","S","S","W","O","R","D">>, <<"S","E","C","R","E","T">>,
       <<"T","O","K","E","N">>, <<"K","E","Y">>, <<"P","R","I","V","A","T","E">>,
       <<"A","P","I","_","K","E","Y">>, <<"A","U","T","H">>,
       <<"C","R","E","D","E","N","T","I","A","L">>, <<"C","E","R","T">> >>

\* A match that does not fold the case of the key.
isSecretKeyAsWritten(key) ==
    \E i \in DOMAIN secretKeywords : Contains(key, secretKeywords[i])

isSecretKey(key) ==
    \E i \in DOMAIN secretKeywords : Contains(ToUpper(key), secretKeywords[i])

-----------------------------------------------------------------------------
(* internal/model: Entry.String and the EnvFile mutation primitives *)

\* Entry.String
EntryString(e) ==
    IF e.Type = KeyValueEntry
    THEN LET prefix == IF e.Exported THEN <<"e","x","p","o","r","t"," ">> ELSE <<>>
             suffix == IF e.Comment # <<>> THEN <<" ">> \o e.Comment ELSE <<>>
         IN prefix \o e.Key \o <<"=">> \o e.Value \o suffix
    ELSE IF e.Type = CommentEntry THEN e.Comment
    ELSE <<>>

\* The loop of GetEntry, UpdateEntry and DeleteEntry: the index of the first
\* KeyValue entry with this key, 0 when there is none.
FirstIndex(entries, key) ==
    LET hits == {i \in 1..Len(entries) :
                    entries[i].Type = KeyValueEntry /\ entries[i].Key = key}
    IN IF hits = {} THEN 0 ELSE CHOOSE i \in hits : \A j \in hits : i <= j

\* EnvFile.GetEntry: the entry, NoEntry for nil
GetEntry(entries, key) ==
    IF FirstIndex(entries, key) = 0 THEN NoEntry ELSE entries[FirstIndex(entries, key)]

\* EnvFile.AddEntry
AddEntry(entries, entry) == Append(entries, entry)

\* UpdateEntry that sets the value of every entry with the key.
UpdateEntryEveryMatch(entries, key, value) ==
    [i \in 1..Len(entries) |->
        IF entries[i].Type = KeyValueEntry /\ entries[i].Key = key
        THEN [entries[i] EXCEPT !.Value = value]
        ELSE entries[i]]

\* DeleteEntry that removes the last entry with the key.
DeleteEntryLastMatch(entries, key) ==
    LET hits == {i \in 1..Len(entries) :
                    entries[i].Type = KeyValueEntry /\ entries[i].Key = key}
    IN IF hits = {} THEN entries
       ELSE LET i == CHOOSE h \in hits : \A j \in hits : j <= h
            IN SubSeq(entries, 1, i - 1) \o SubSeq(entries, i + 1, Len(entries))

\* EnvFile.UpdateEntry (the entries after the call; the bool is FirstIndex # 0)
UpdateEntry(entries, key, value) ==
    LET i == FirstIndex(entries, key)
    IN IF i = 0 THEN entries ELSE [entries EXCEPT ![i].Value = value]

\* EnvFile.DeleteEntry (the entries after the call; the bool is FirstIndex # 0)
DeleteEntry(entries, key) ==
    LET i == FirstIndex(entries, key)
    IN IF i = 0 THEN entries
       ELSE SubSeq(entries, 1, i - 1) \o SubSeq(entries, i + 1, Len(entries))

\* The bool UpdateEntry and DeleteEntry return: the loop found the key
Found(entries, key) == FirstIndex(entries, key) # 0

\* EnvFile.FilterEntries(""): the positions of the KeyValue entries, in document order
RECURSIVE KeyValueIndices(_, _)
KeyValueIndices(entries, i) ==
    IF i > Len(entries) THEN <<>>
    ELSE (IF entries[i].Type = KeyValueEntry THEN <<i>> ELSE <<>>)
         \o KeyValueIndices(entries, i + 1)

-----------------------------------------------------------------------------
(* The directory, as internal/storage sees it.  A path's slot holds the    *)
(* target file, its {path}.tmp sibling and its {path}.backup.{timestamp}   *)
(* siblings, one per second of the clock, and likewise its                 *)
(* {path}.backup.pre-restore.{timestamp} siblings.                         *)

File(data) == [exists |-> TRUE, data |-> data]

Absent == [exists |-> FALSE, data |-> <<>>]

Times == 0..MaxClock

NoBackups == [t \in Times |-> Absent]

\* What one I/O step does: it succeeds (ok), or fails; how names which call of
\* copyFile failed, n the bytes a failing io.Copy or WriteString still wrote.
Outcome(ok, how, n) == [ok |-> ok, how |-> how, n |-> n]

OkOutcome == Outcome(TRUE, "", 0)

Prefix(data, n) == SubSeq(data, 1, n)

\* copyFile(path, backupPath): [dir, failed]
copyFile(d, backupTime, o) ==
    IF o.ok
    THEN [dir |-> [d EXCEPT !.backups[backupTime] = File(d.target.data)], failed |-> FALSE]
    ELSE IF o.how = "copy"
    THEN \* os.Create truncated the destination, io.Copy stopped after n bytes
         [dir |-> [d EXCEPT !.backups[backupTime] = File(Prefix(d.target.data, o.n))],
          failed |-> TRUE]
    ELSE \* os.Open(src) or os.Create(dst) failed
         [dir |-> d, failed |-> TRUE]

\* CreateBackup without the os.Stat check: os.Open of a missing file fails.
CreateBackupOfMissing(d, now, o) ==
    IF ~d.target.exists THEN [dir |-> d, failed |-> TRUE] ELSE copyFile(d, now, o)

\* CreateBackup that reports success without copying.
CreateBackupSkips(d, now, o) == [dir |-> d, failed |-> FALSE]

\* CreateBackup(path): [dir, failed]
CreateBackup(d, now, o) ==
    IF ~d.target.exists
    THEN [dir |-> d, failed |-> FALSE]
    ELSE copyFile(d, now, o)

\* os.Create(tempPath)
CreateTemp(d, o) ==
    IF o.ok
    THEN [dir |-> [d EXCEPT !.tmp = File(<<>>)], failed |-> FALSE]
    ELSE [dir |-> d, failed |-> TRUE]

\* The bytes WriteFile writes for one entry
EntryLine(e) == EntryString(e) \o <<"\n">>

\* Writing an entry straight into the target instead of the temp file.
WriteEntryInPlace(d, e, o) ==
    IF o.ok
    THEN [dir |-> [d EXCEPT !.target = File(@.data \o EntryLine(e))], failed |-> FALSE]
    ELSE [dir |-> [d EXCEPT !.target = File(@.data \o Prefix(EntryLine(e), o.n))],
          failed |-> TRUE]

\* tempFile.WriteString(entry.String() + "\n")
WriteEntry(d, e, o) ==
    IF o.ok
    THEN [dir |-> [d EXCEPT !.tmp.data = @ \o EntryLine(e)], failed |-> FALSE]
    ELSE [dir |-> [d EXCEPT !.tmp.data = @ \o Prefix(EntryLine(e), o.n)], failed |-> TRUE]

\* tempFile.Sync()
SyncTemp(d, o) == [dir |-> d, failed |-> ~o.ok]

\* A rename whose failure path forgets os.Remove(tempPath).
RenameTempNoCleanup(d, o) ==
    IF o.ok
    THEN [dir |-> [d EXCEPT !.target = d.tmp, !.tmp = Absent], failed |-> FALSE]
    ELSE [dir |-> d, failed |-> TRUE]

\* os.Rename(tempPath, path), and os.Remove(tempPath) when it fails
RenameTemp(d, o) ==
    IF o.ok
    THEN [dir |-> [d EXCEPT !.target = d.tmp, !.tmp = Absent], failed |-> FALSE]
    ELSE [dir |-> [d EXCEPT !.tmp = Absent], failed |-> TRUE]

\* The whole file as WriteFile writes it
RECURSIVE Serialize(_)
Serialize(entries) ==
    IF entries = <<>> THEN <<>>
    ELSE EntryLine(Head(entries)) \o Serialize(Tail(entries))

-----------------------------------------------------------------------------
(* internal/storage/file.go: WriteFile, one I/O call at a time *)

\* The frame of a WriteFile call: where it is, what it was given, which entry
\* the loop is at, the error it returns, the directory slot as it was at the
\* call, and the steps run so far with their results.
Frame(pc, path, entries, i, error, pre, trace) ==
    [pc |-> pc, path |-> path, entries |-> entries, i |-> i, err |-> error,
     pre |-> pre, trace |-> trace]

NoDir == [target |-> Absent, tmp |-> Absent, backups |-> NoBackups,
          preRestore |-> NoBackups]

IdleFrame == Frame("idle", "", <<>>, 0, "", NoDir, <<>>)

\* WriteFile(envFile) entered
CallFrame(path, entries, d) == Frame("backup", path, entries, 1, "", d, <<>>)

\* A WriteFile that goes on to the temp file after a failed backup.
NextPcIgnoresBackup(pc, failed, more) ==
    IF failed /\ pc # "backup" THEN "done"
    ELSE IF pc = "backup" THEN "create"
    ELSE IF pc \in {"create", "write"} THEN (IF more THEN "write" ELSE "sync")
    ELSE IF pc = "sync" THEN "rename"
    ELSE "done"

\* The control flow of WriteFile: every failure returns at once; more tells
\* whether the range loop has an entry left.
NextPc(pc, failed, more) ==
    IF failed THEN "done"
    ELSE IF pc = "backup" THEN "create"
    ELSE IF pc \in {"create", "write"} THEN (IF more THEN "write" ELSE "sync")
    ELSE IF pc = "sync" THEN "rename"
    ELSE "done"

\* The I/O call the frame is at, applied to the directory slot
StepEffect(f, d, now, o) ==
    IF f.pc = "backup" THEN CreateBackup(d, now, o)
    ELSE IF f.pc = "create" THEN CreateTemp(d, o)
    ELSE IF f.pc = "write" THEN WriteEntry(d, f.entries[f.i], o)
    ELSE IF f.pc = "sync" THEN SyncTemp(d, o)
    ELSE RenameTemp(d, o)

\* One step of WriteFile: [frame, dir]
WriteFileStep(f, d, now, o) ==
    LET e == StepEffect(f, d, now, o)
        i == IF f.pc = "write" THEN f.i + 1 ELSE f.i
        pc == NextPc(f.pc, e.failed, i <= Len(f.entries))
    IN [frame |-> [f EXCEPT !.pc = pc, !.i = i,
                            !.err = IF e.failed THEN f.pc ELSE "",
                            !.trace = Append(@, [step |-> f.pc, failed |-> e.failed])],
        dir |-> e.dir]

\* The ways the step the frame is at can go
StepOutcomes(f, d) ==
    {OkOutcome} \cup
    (IF f.pc = "backup"
     THEN {Outcome(FALSE, "open", 0), Outcome(FALSE, "create", 0)}
          \cup {Outcome(FALSE, "copy", n) : n \in 0..(Len(d.target.data) - 1)}
     ELSE IF f.pc = "write"
     THEN {Outcome(FALSE, "", n) : n \in 0..(Len(EntryLine(f.entries[f.i])) - 1)}
     ELSE {Outcome(FALSE, "", 0)})

\* A failure plan for a whole call: the step that fails (at, and for the loop
\* the entry k), and how; at = "ok" when nothing fails.
Plan(at, k, o) == [at |-> at, k |-> k, o |-> o]

PlanOutcome(f, plan) ==
    IF f.pc = plan.at /\ (f.pc # "write" \/ f.i = plan.k) THEN plan.o ELSE OkOutcome

RECURSIVE RunWriteFile(_, _, _, _)
RunWriteFile(f, d, now, plan) ==
    IF f.pc = "done" THEN [frame |-> f, dir |-> d]
    ELSE LET s == WriteFileStep(f, d, now, PlanOutcome(f, plan))
         IN RunWriteFile(s.frame, s.dir, now, plan)

\* WriteFile(envFile) from call to return: [frame, dir]; frame.err is "" for nil
WriteFile(path, entries, d, now, plan) ==
    RunWriteFile(CallFrame(path, entries, d), d, now, plan)

\* The failure plans of a call
Plans(entries, d) ==
    {Plan("ok", 0, OkOutcome)}
    \cup {Plan("backup", 0, o) : o \in StepOutcomes(CallFrame("", entries, d), d) \ {OkOutcome}}
    \cup {Plan(at, 0, Outcome(FALSE, "", 0)) : at \in {"create", "sync", "rename"}}
    \cup UNION {{Plan("write", k, Outcome(FALSE, "", n)) :
                    n \in 0..(Len(EntryLine(entries[k])) - 1)} : k \in 1..Len(entries)}

-----------------------------------------------------------------------------
(* internal/storage/backup.go: RestoreBackup, one I/O call at a time *)

\* copyFile(originalPath, safetyBackupPath): [dir, failed]
copyToPreRestore(d, now, o) ==
    IF o.ok
    THEN [dir |-> [d EXCEPT !.preRestore[now] = File(d.target.data)], failed |-> FALSE]
    ELSE IF o.how = "copy"
    THEN \* os.Create truncated the destination, io.Copy stopped after n bytes
         [dir |-> [d EXCEPT !.preRestore[now] = File(Prefix(d.target.data, o.n))],
          failed |-> TRUE]
    ELSE \* os.Open(src) or os.Create(dst) failed
         [dir |-> d, failed |-> TRUE]

\* The frame of a RestoreBackup call: where it is, the path it restores, the
\* timestamp of the backup it restores from, the error it returns, the
\* directory slot as it was at the call, the steps run so far.
RestoreFrame(pc, path, backup, error, pre, trace) ==
    [pc |-> pc, path |-> path, backup |-> backup, err |-> error, pre |-> pre,
     trace |-> trace]

IdleRestore == RestoreFrame("idle", "", 0, "", NoDir, <<>>)

\* RestoreBackup(backupPath, originalPath) entered
RestoreCall(path, backup, d) == RestoreFrame("open", path, backup, "", d, <<>>)

\* os.Open(backupPath)
OpenBackup(d, backup, o) ==
    [dir |-> d, failed |-> ~d.backups[backup].exists \/ ~o.ok]

\* The safety backup: os.Stat(originalPath), and copyFile when it exists
SafetyBackup(d, now, o) ==
    IF d.target.exists THEN copyToPreRestore(d, now, o)
    ELSE [dir |-> d, failed |-> FALSE]

\* os.Create(originalPath): truncates the target
CreateTarget(d, o) ==
    IF o.ok
    THEN [dir |-> [d EXCEPT !.target = File(<<>>)], failed |-> FALSE]
    ELSE [dir |-> d, failed |-> TRUE]

\* io.Copy(dst, src)
CopyBackup(d, backup, o) ==
    IF o.ok
    THEN [dir |-> [d EXCEPT !.target = File(d.backups[backup].data)], failed |-> FALSE]
    ELSE [dir |-> [d EXCEPT !.target = File(Prefix(d.backups[backup].data, o.n))],
          failed |-> TRUE]

\* A RestoreBackup that goes on when the safety backup failed.
RestoreNextIgnoresSafety(pc, failed) ==
    IF failed /\ pc # "safety" THEN "done"
    ELSE IF pc = "open" THEN "safety"
    ELSE IF pc = "safety" THEN "create"
    ELSE IF pc = "create" THEN "copy"
    ELSE "done"

\* The control flow of RestoreBackup: every failure returns at once
RestoreNext(pc, failed) ==
    IF failed THEN "done"
    ELSE IF pc = "open" THEN "safety"
    ELSE IF pc = "safety" THEN "create"
    ELSE IF pc = "create" THEN "copy"
    ELSE "done"

\* One step of RestoreBackup: [frame, dir]
RestoreStep(f, d, now, o) ==
    LET e == IF f.pc = "open" THEN OpenBackup(d, f.backup, o)
             ELSE IF f.pc = "safety" THEN SafetyBackup(d, now, o)
             ELSE IF f.pc = "create" THEN CreateTarget(d, o)
             ELSE CopyBackup(d, f.backup, o)
    IN [frame |-> [f EXCEPT !.pc = RestoreNext(f.pc, e.failed),
                            !.err = IF e.failed THEN f.pc ELSE "",
                            !.trace = Append(@, [step |-> f.pc, failed |-> e.failed])],
        dir |-> e.dir]

\* The ways the step the frame is at can go
RestoreOutcomes(f, d) ==
    {OkOutcome} \cup
    (IF f.pc = "safety"
     THEN {Outcome(FALSE, "open", 0), Outcome(FALSE, "create", 0)}
          \cup {Outcome(FALSE, "copy", n) : n \in 0..(Len(d.target.data) - 1)}
     ELSE IF f.pc = "copy"
     THEN {Outcome(FALSE, "", n) : n \in 0..(Len(d.backups[f.backup].data) - 1)}
     ELSE {Outcome(FALSE, "", 0)})

-----------------------------------------------------------------------------
(* internal/storage/backup.go: ListBackups.  File names are sequences of   *)
(* characters, without their directory (filepath.Base).                    *)

DigitChars == <<"0","1","2","3","4","5","6","7","8","9">>

IsDigit(c) == \E i \in 1..Len(DigitChars) : DigitChars[i] = c

DigitValue(c) == (CHOOSE i \in 1..Len(DigitChars) : DigitChars[i] = c) - 1

\* The number a sequence of digits writes
RECURSIVE Number(_)
Number(s) ==
    IF s = <<>> THEN 0
    ELSE 10 * Number(SubSeq(s, 1, Len(s) - 1)) + DigitValue(s[Len(s)])

\* strings.HasPrefix
HasPrefix(s, p) == Len(s) >= Len(p) /\ SubSeq(s, 1, Len(p)) = p

\* strings.Index, 1-based; 0 when sub does not occur
Index(s, sub) ==
    LET at == {i \in 1..(Len(s) - Len(sub) + 1) : SubSeq(s, i, i + Len(sub) - 1) = sub}
    IN IF at = {} THEN 0 ELSE CHOOSE i \in at : \A j \in at : i <= j

\* strings.Split
RECURSIVE Split(_, _)
Split(s, sep) ==
    LET i == Index(s, sep)
    IN IF i = 0 THEN <<s>>
       ELSE <<SubSeq(s, 1, i - 1)>> \o Split(SubSeq(s, i + Len(sep), Len(s)), sep)

BackupInfix == <<".","b","a","c","k","u","p",".">>

\* time: the days of a month
DaysIn(year, month) ==
    IF month = 2
    THEN (IF year % 4 = 0 /\ (year % 100 # 0 \/ year % 400 = 0) THEN 29 ELSE 28)
    ELSE IF month \in {4, 6, 9, 11} THEN 30
    ELSE 31

\* The nanoseconds a fractional second writes: its first nine digits
Nanoseconds(digits) ==
    Number([i \in 1..9 |-> IF i <= Len(digits) THEN digits[i] ELSE "0"])

NoTime == [ok |-> FALSE, time |-> <<>>]

\* time.Parse("20060102-150405", s): [ok, time].  Fixed-width fields, each in
\* its range, the day within its month; a fractional second after the
\* seconds is accepted though the layout has none; anything else after them
\* is an error.
ParseTime(s) ==
    LET rest == SubSeq(s, 16, Len(s))
        year == Number(SubSeq(s, 1, 4))
        month == Number(SubSeq(s, 5, 6))
        day == Number(SubSeq(s, 7, 8))
        hour == Number(SubSeq(s, 10, 11))
        min == Number(SubSeq(s, 12, 13))
        sec == Number(SubSeq(s, 14, 15))
    IN IF Len(s) < 15 THEN NoTime
       ELSE IF \E i \in 1..15 : IF i = 9 THEN s[i] # "-" ELSE ~IsDigit(s[i]) THEN NoTime
       ELSE IF rest # <<>> /\ ~( /\ Len(rest) >= 2
                                 /\ rest[1] \in {".", ","}
                                 /\ \A i \in 2..Len(rest) : IsDigit(rest[i]) ) THEN NoTime
       ELSE IF month \notin 1..12 \/ hour > 23 \/ min > 59 \/ sec > 59 THEN NoTime
       ELSE IF day \notin 1..DaysIn(year, month) THEN NoTime
       ELSE [ok |-> TRUE,
             time |-> <<year, month, day, hour, min, sec, Nanoseconds(SubSeq(rest, 2, Len(rest)))>>]

\* Time.After
RECURSIVE After(_, _)
After(a, b) ==
    IF a = <<>> THEN FALSE
    ELSE IF Head(a) # Head(b) THEN Head(a) > Head(b)
    ELSE After(Tail(a), Tail(b))

\* A parse of the last fifteen characters of the name, whatever precedes them
parseBackupTimestampOfTail(name) ==
    IF Len(name) < 15 THEN NoTime ELSE ParseTime(SubSeq(name, Len(name) - 14, Len(name)))

\* parseBackupTimestamp(path): [ok, time]
parseBackupTimestamp(name) ==
    LET parts == Split(name, BackupInfix)
    IN IF Len(parts) # 2 THEN NoTime ELSE ParseTime(parts[2])

\* filepath.Glob(base + ".backup.*") over the directory
GlobBackups(base, names) == {n \in names : HasPrefix(n, base \o BackupInfix)}

\* The backups ListBackups keeps: those of the glob whose timestamp parses
ListedBackups(base, names) ==
    {n \in GlobBackups(base, names) : parseBackupTimestamp(n).ok}

\* ListBackups(path): every order sort.Slice can leave the kept backups in
\* (it is not stable: backups of equal time come in any order)
ListBackups(base, names) ==
    LET kept == ListedBackups(base, names)
        n == Cardinality(kept)
    IN {l \in [1..n -> kept] :
          /\ \A i, j \in 1..n : i # j => l[i] # l[j]
          /\ \A i, j \in 1..n :
                i < j => ~After(parseBackupTimestamp(l[j]).time,
                                parseBackupTimestamp(l[i]).time)}

-----------------------------------------------------------------------------
(* internal/parser/production.go: Parse, the parser ReadFile calls.  A text *)
(* is a sequence of characters, its lines are what strings.Split(input,     *)
(* "\n") makes of it, and the loop index i counts from 0 as in the code.    *)

\* unicode.IsSpace, on the characters the model uses
WhiteSpace == {" ", "\t", "\r", "\n"}

\* strings.TrimSpace
TrimSpace(s) ==
    LET keep == {i \in 1..Len(s) : s[i] \notin WhiteSpace}
    IN IF keep = {} THEN <<>>
       ELSE SubSeq(s, CHOOSE i \in keep : \A j \in keep : i <= j,
                      CHOOSE i \in keep : \A j \in keep : j <= i)

\* A letter outside ASCII
OtherLetters == {"é"}

\* unicode.IsLetter
IsLetter(ch) ==
    \/ \E i \in DOMAIN LowerLetters : LowerLetters[i] = ch
    \/ \E i \in DOMAIN UpperLetters : UpperLetters[i] = ch
    \/ ch \in OtherLetters

\* An isValidKey that lets a digit lead.
isValidKeyAnyFirst(key) ==
    /\ Len(key) # 0
    /\ \A i \in 1..Len(key) : IsLetter(key[i]) \/ IsDigit(key[i]) \/ key[i] = "_"

isValidKey(key) ==
    /\ Len(key) # 0
    /\ IsLetter(key[1]) \/ key[1] = "_"
    /\ \A i \in 1..Len(key) : IsLetter(key[i]) \/ IsDigit(key[i]) \/ key[i] = "_"

\* An escape switch that knows \n and \t only and keeps the letter otherwise.
UnescapeNoReturn(next) ==
    IF next = "n" THEN "\n"
    ELSE IF next = "t" THEN "\t"
    ELSE next

\* The switch of parseQuotedValue: the byte written for the escape \next
Unescape(next) ==
    IF next = "n" THEN "\n"
    ELSE IF next = "t" THEN "\t"
    ELSE IF next = "r" THEN "\r"
    ELSE next

\* The value parseQuotedValue returns
ParsedValue(value, consumed) == [value |-> value, consumed |-> consumed]

\* A scan that gives up at the end of the first line.
RECURSIVE QuotedScanOneLine(_, _, _, _, _, _, _)
QuotedScanOneLine(currentLineStr, i, res, linesConsumed, quote, lines, currentLine) ==
    IF i < Len(currentLineStr)
    THEN LET ch == currentLineStr[i + 1]
         IN IF ch = "\\" /\ i + 1 < Len(currentLineStr)
            THEN QuotedScanOneLine(currentLineStr, i + 2,
                                   Append(res, Unescape(currentLineStr[i + 2])),
                                   linesConsumed, quote, lines, currentLine)
            ELSE IF ch = quote THEN ParsedValue(res, linesConsumed)
            ELSE QuotedScanOneLine(currentLineStr, i + 1, Append(res, ch),
                                   linesConsumed, quote, lines, currentLine)
    ELSE ParsedValue(res, linesConsumed)

\* The loops of parseQuotedValue, from index i of currentLineStr on
RECURSIVE QuotedScan(_, _, _, _, _, _, _)
QuotedScan(currentLineStr, i, res, linesConsumed, quote, lines, currentLine) ==
    IF i < Len(currentLineStr)
    THEN LET ch == currentLineStr[i + 1]
         IN IF ch = "\\" /\ i + 1 < Len(currentLineStr)
            THEN QuotedScan(currentLineStr, i + 2,
                            Append(res, Unescape(currentLineStr[i + 2])),
                            linesConsumed, quote, lines, currentLine)
            ELSE IF ch = quote THEN ParsedValue(res, linesConsumed)
            ELSE QuotedScan(currentLineStr, i + 1, Append(res, ch),
                            linesConsumed, quote, lines, currentLine)
    ELSE IF currentLine + linesConsumed + 1 < Len(lines)
    THEN QuotedScan(lines[currentLine + linesConsumed + 2], 0, Append(res, "\n"),
                    linesConsumed + 1, quote, lines, currentLine)
    ELSE ParsedValue(res, linesConsumed)

parseQuotedValue(valueStr, quote, lines, currentLine) ==
    QuotedScan(valueStr, 1, <<>>, 0, quote, lines, currentLine)

parseValue(valueStr, lines, currentLine) ==
    LET trimmed == TrimSpace(valueStr)
        idx == Index(trimmed, <<"#">>)
    IN IF trimmed = <<>> THEN ParsedValue(<<>>, 0)
       ELSE IF trimmed[1] = "\"" \/ trimmed[1] = "'"
       THEN parseQuotedValue(trimmed, trimmed[1], lines, currentLine)
       ELSE IF idx # 0 THEN ParsedValue(TrimSpace(SubSeq(trimmed, 1, idx - 1)), 0)
       ELSE ParsedValue(trimmed, 0)

\* The prefix without the space that ends it
ExportPrefixNoSpace == <<"e","x","p","o","r","t">>

ExportPrefix == <<"e","x","p","o","r","t"," ">>

\* One pass of the loop of Parse at index i: the entries it appends and the
\* index the next pass starts at
ParseLine(lines, i) ==
    LET line == lines[i + 1]
        trimmed == TrimSpace(line)
        exported == HasPrefix(trimmed, ExportPrefix)
        rest == IF exported
                THEN TrimSpace(SubSeq(trimmed, Len(ExportPrefix) + 1, Len(trimmed)))
                ELSE trimmed
        eqIdx == Index(rest, <<"=">>)
        key == TrimSpace(SubSeq(rest, 1, eqIdx - 1))
        parsed == parseValue(SubSeq(rest, eqIdx + 1, Len(rest)), lines, i)
        last == i + parsed.consumed
    IN IF trimmed = <<>>
       THEN [append |-> <<Entry(BlankEntry, <<>>, <<>>, <<>>, i + 1, FALSE, FALSE)>>,
             i |-> i + 1]
       ELSE IF HasPrefix(trimmed, <<"#">>)
       THEN [append |-> <<Entry(CommentEntry, <<>>, <<>>, line, i + 1, FALSE, FALSE)>>,
             i |-> i + 1]
       ELSE IF eqIdx = 0 THEN [append |-> <<>>, i |-> i + 1]
       ELSE IF key = <<>> \/ ~isValidKey(key) THEN [append |-> <<>>, i |-> i + 1]
       ELSE [append |-> <<Entry(KeyValueEntry, key, parsed.value, <<>>, last + 1,
                                exported, isSecretKey(key))>>,
             i |-> last + 1]

\* Parse from index i on, with the entries appended so far
RECURSIVE ParseFrom(_, _, _)
ParseFrom(lines, i, entries) ==
    IF i >= Len(lines) THEN entries
    ELSE LET pass == ParseLine(lines, i)
         IN ParseFrom(lines, pass.i, entries \o pass.append)

\* Parse(input): the entries of the document; the error is always nil
Parse(input) == ParseFrom(Split(input, <<"\n">>), 0, <<>>)

-----------------------------------------------------------------------------
(* internal/model/validation.go: Validate *)

ValidationError == 0

ValidationWarning == 1

\* A ValidationIssue; the message is kept as its format and arguments
ValidationIssue(level, message, line, key) ==
    [Level |-> level, Message |-> message, Line |-> line, Key |-> key]

SuspiciousValues ==
    {<<>>, <<"c","h","a","n","g","e","m","e">>, <<"p","a","s","s","w","o","r","d">>}

\* Entry.Validate
ValidateEntry(e) ==
    IF e.Type # KeyValueEntry THEN <<>>
    ELSE (IF e.Key = <<>>
          THEN <<ValidationIssue(ValidationError, <<"Key cannot be empty">>, e.Line, <<>>)>>
          ELSE <<>>)
         \o (IF Contains(e.Value, <<" ">>) /\ ~e.Exported
             THEN <<ValidationIssue(ValidationWarning,
                                    <<"Value contains spaces, consider quoting", e.Key>>,
                                    e.Line, e.Key)>>
             ELSE <<>>)
         \o (IF e.IsSecret /\ e.Value \in SuspiciousValues
             THEN <<ValidationIssue(ValidationWarning,
                                    <<"Suspicious secret value", e.Key>>, e.Line, e.Key)>>
             ELSE <<>>)

\* The duplicate-key error of EnvFile.Validate
DuplicateIssue(e, prevLine) ==
    ValidationIssue(ValidationError, <<"Duplicate key (first seen at line)", e.Key, prevLine>>,
                    e.Line, e.Key)

\* The loop of EnvFile.Validate from entry i on; keysSeen is the map from key
\* to line, as a function on the keys seen
RECURSIVE ValidateFrom(_, _, _, _)
ValidateFrom(entries, i, keysSeen, issues) ==
    IF i > Len(entries) THEN issues
    ELSE LET entry == entries[i]
             own == ValidateEntry(entry)
         IN IF entry.Type = KeyValueEntry
            THEN ValidateFrom(entries, i + 1,
                     [k \in DOMAIN keysSeen \cup {entry.Key} |->
                         IF k = entry.Key THEN entry.Line ELSE keysSeen[k]],
                     issues \o own \o
                        (IF entry.Key \in DOMAIN keysSeen
                         THEN <<DuplicateIssue(entry, keysSeen[entry.Key])>>
                         ELSE <<>>))
            ELSE ValidateFrom(entries, i + 1, keysSeen, issues \o own)

\* EnvFile.Validate
Validate(entries) == ValidateFrom(entries, 1, <<>>, <<>>)

-----------------------------------------------------------------------------
(* Values the model draws its inputs from *)

Paths == {"f1", "f2"}

KeyA == <<"A">>

KeyB == <<"B">>

Keys == {KeyA, KeyB}

Values == {<<"1">>, <<"2">>}

\* A key-value entry as Parse builds it from the line KEY=value
Parsed(key, value, line) ==
    Entry(KeyValueEntry, key, value, <<>>, line, FALSE, isSecretKey(key))

\* A comment line and a blank line as Parse builds them
ParsedComment(line) == Entry(CommentEntry, <<>>, <<>>, <<"#","c">>, line, FALSE, FALSE)

ParsedBlank(line) == Entry(BlankEntry, <<>>, <<>>, <<>>, line, FALSE, FALSE)

NoResult == [op |-> "", change |-> NoChange, ok |-> FALSE, pre |-> NewChangeStack(0)]

-----------------------------------------------------------------------------
(* SpecStack: a ChangeStack on its own, driven by every call of its API *)

StackChanges ==
    {Change(t, "f1", Parsed(KeyA, <<"1">>, 0), <<>>) : t \in ChangeTypes}

Called(op, change, ok, pre) == [op |-> op, change |-> change, ok |-> ok, pre |-> pre]

InitStack ==
    /\ changeStack \in {NewChangeStack(n) : n \in 1..MaxCapacity}
    /\ result = NoResult
    /\ envFiles = <<>>
    /\ currentFileIndex = 1
    /\ listView = <<>>
    /\ viewMode = "List"
    /\ err = ""
    /\ disk = [p \in Paths |-> NoDir]
    /\ clock = 0
    /\ wf = IdleFrame
    /\ prior = <<>>
    /\ failures = 0
    /\ edits = 0
    /\ heap = <<>>
    /\ originalStates = <<>>
    /\ rf = IdleRestore

StackPush(c) ==
    /\ changeStack' = Push(changeStack, c)
    /\ result' = Called("Push", c, TRUE, changeStack)
    /\ UNCHANGED <<envFiles, currentFileIndex, listView, viewMode, err, disk,
                   clock, wf, prior, failures, edits, heap,
                   originalStates, rf>>

StackUndo ==
    /\ changeStack' = Undo(changeStack).cs
    /\ result' = Called("Undo", Undo(changeStack).change, Undo(changeStack).ok, changeStack)
    /\ UNCHANGED <<envFiles, currentFileIndex, listView, viewMode, err, disk,
                   clock, wf, prior, failures, edits, heap,
                   originalStates, rf>>

StackRedo ==
    /\ changeStack' = Redo(changeStack).cs
    /\ result' = Called("Redo", Redo(changeStack).change, Redo(changeStack).ok, changeStack)
    /\ UNCHANGED <<envFiles, currentFileIndex, listView, viewMode, err, disk,
                   clock, wf, prior, failures, edits, heap,
                   originalStates, rf>>

\* cs.CanUndo(): reads the cursor, assigns nothing
StackCanUndo ==
    /\ changeStack' = changeStack
    /\ result' = Called("CanUndo", NoChange, CanUndo(changeStack), changeStack)
    /\ UNCHANGED <<envFiles, currentFileIndex, listView, viewMode, err, disk,
                   clock, wf, prior, failures, edits, heap,
                   originalStates, rf>>

\* cs.CanRedo(): reads the cursor and the length, assigns nothing
StackCanRedo ==
    /\ changeStack' = changeStack
    /\ result' = Called("CanRedo", NoChange, CanRedo(changeStack), changeStack)
    /\ UNCHANGED <<envFiles, currentFileIndex, listView, viewMode, err, disk,
                   clock, wf, prior, failures, edits, heap,
                   originalStates, rf>>

StackClear ==
    /\ changeStack' = Clear(changeStack)
    /\ result' = Called("Clear", NoChange, TRUE, changeStack)
    /\ UNCHANGED <<envFiles, currentFileIndex, listView, viewMode, err, disk,
                   clock, wf, prior, failures, edits, heap,
                   originalStates, rf>>

NextStack ==
    \/ \E c \in StackChanges : StackPush(c)
    \/ StackUndo
    \/ StackRedo
    \/ StackCanUndo
    \/ StackCanRedo
    \/ StackClear

SpecStack == InitStack /\ [][NextStack]_vars

-----------------------------------------------------------------------------
(* SpecDoc: the EnvFile mutation primitives on their own, called with any  *)
(* key on documents that hold duplicate keys, comments and blank lines     *)

\* The entries the documents are made of
DocEntries ==
    {Parsed(KeyA, <<"1">>, 0), Parsed(KeyA, <<"2">>, 0), Parsed(KeyB, <<"1">>, 0),
     ParsedComment(0), ParsedBlank(0)}

\* Every document of at most n entries
RECURSIVE Docs(_)
Docs(n) ==
    IF n = 0 THEN {<<>>}
    ELSE Docs(n - 1) \cup {Append(d, e) : d \in {x \in Docs(n - 1) : Len(x) = n - 1},
                                          e \in DocEntries}

\* A call of a primitive: its arguments, the bool it returned, the entries
\* it was called on
DocCalled(op, key, value, ok, pre) ==
    [op |-> op, key |-> key, value |-> value, ok |-> ok, pre |-> pre]

InitDoc ==
    /\ \E d \in Docs(MaxDocLen) : envFiles = <<EnvFile("f1", d)>>
    /\ currentFileIndex = 1
    /\ result = DocCalled("", <<>>, <<>>, FALSE, <<>>)
    /\ changeStack = NewChangeStack(0)
    /\ listView = <<>>
    /\ viewMode = "List"
    /\ err = ""
    /\ disk = [p \in Paths |-> NoDir]
    /\ clock = 0
    /\ wf = IdleFrame
    /\ prior = <<>>
    /\ failures = 0
    /\ edits = 0
    /\ heap = <<>>
    /\ originalStates = <<>>
    /\ rf = IdleRestore

DocIdle == <<changeStack, currentFileIndex, listView, viewMode, err, disk, clock,
             wf, prior, failures, edits, heap, originalStates, rf>>

\* ef.UpdateEntry(key, value)
DocUpdate(key, value) ==
    LET pre == envFiles[1].Entries
    IN /\ envFiles' = [envFiles EXCEPT ![1].Entries = UpdateEntry(pre, key, value)]
       /\ result' = DocCalled("UpdateEntry", key, value, Found(pre, key), pre)
       /\ UNCHANGED DocIdle

\* ef.DeleteEntry(key)
DocDelete(key) ==
    LET pre == envFiles[1].Entries
    IN /\ envFiles' = [envFiles EXCEPT ![1].Entries = DeleteEntry(pre, key)]
       /\ result' = DocCalled("DeleteEntry", key, <<>>, Found(pre, key), pre)
       /\ UNCHANGED DocIdle

\* ef.AddEntry(entry)
DocAdd(entry) ==
    LET pre == envFiles[1].Entries
    IN /\ Len(pre) < MaxDocLen
       /\ envFiles' = [envFiles EXCEPT ![1].Entries = AddEntry(pre, entry)]
       /\ result' = DocCalled("AddEntry", entry.Key, entry.Value, TRUE, pre)
       /\ UNCHANGED DocIdle

NextDoc ==
    \/ \E key \in Keys, value \in Values : DocUpdate(key, value)
    \/ \E key \in Keys : DocDelete(key)
    \/ \E entry \in DocEntries : DocAdd(entry)

SpecDoc == InitDoc /\ [][NextDoc]_vars

-----------------------------------------------------------------------------
(* SpecWrite: WriteFile calls against the directory, every I/O call of     *)
(* which may fail; the clock may tick between any two steps.               *)

WriteDocs ==
    { <<>>,
      <<Parsed(KeyA, <<"1">>, 1)>>,
      <<Parsed(KeyA, <<"2">>, 1), ParsedComment(2)>>,
      <<ParsedBlank(1), Parsed(KeyB, <<"1">>, 2)>> }

\* The path the calls of this specification write; the other slot stays as it is.
WritePath == "f1"

InitWrite ==
    /\ \E t \in {Absent} \cup {File(Serialize(doc)) : doc \in WriteDocs} :
          disk = [p \in Paths |-> IF p = WritePath
                                  THEN [target |-> t, tmp |-> Absent,
                                        backups |-> NoBackups,
                                        preRestore |-> NoBackups]
                                  ELSE NoDir]
    /\ clock = 0
    /\ wf = IdleFrame
    /\ changeStack = NewChangeStack(0)
    /\ result = NoResult
    /\ envFiles = <<>>
    /\ currentFileIndex = 1
    /\ listView = <<>>
    /\ viewMode = "List"
    /\ err = ""
    /\ prior = <<>>
    /\ failures = 0
    /\ edits = 0
    /\ heap = <<>>
    /\ originalStates = <<>>
    /\ rf = IdleRestore

WriteIdle == <<changeStack, result, envFiles, currentFileIndex, listView, viewMode,
               err, prior, edits, heap, originalStates, rf>>

WFCall(p, doc) ==
    /\ wf.pc \in {"idle", "done"}
    /\ wf' = CallFrame(p, doc, disk[p])
    /\ UNCHANGED <<disk, clock, failures>>
    /\ UNCHANGED WriteIdle

\* One I/O call of the WriteFile in progress, with any of its outcomes
WriteFileStepped(o) ==
    LET s == WriteFileStep(wf, disk[wf.path], clock, o)
    IN /\ o.ok \/ failures < MaxFailures
       /\ failures' = IF o.ok THEN failures ELSE failures + 1
       /\ wf' = s.frame
       /\ disk' = [disk EXCEPT ![wf.path] = s.dir]
       /\ UNCHANGED clock
       /\ UNCHANGED WriteIdle

WFBackup ==
    /\ wf.pc = "backup"
    /\ \E o \in StepOutcomes(wf, disk[wf.path]) : WriteFileStepped(o)

WFCreate ==
    /\ wf.pc = "create"
    /\ \E o \in StepOutcomes(wf, disk[wf.path]) : WriteFileStepped(o)

WFWrite ==
    /\ wf.pc = "write"
    /\ \E o \in StepOutcomes(wf, disk[wf.path]) : WriteFileStepped(o)

WFSync ==
    /\ wf.pc = "sync"
    /\ \E o \in StepOutcomes(wf, disk[wf.path]) : WriteFileStepped(o)

WFRename ==
    /\ wf.pc = "rename"
    /\ \E o \in StepOutcomes(wf, disk[wf.path]) : WriteFileStepped(o)

Tick ==
    /\ clock < MaxClock
    /\ clock' = clock + 1
    /\ UNCHANGED <<disk, wf, failures>>
    /\ UNCHANGED WriteIdle

NextWrite ==
    \/ \E doc \in WriteDocs : WFCall(WritePath, doc)
    \/ WFBackup
    \/ WFCreate
    \/ WFWrite
    \/ WFSync
    \/ WFRename
    \/ Tick

SpecWrite == InitWrite /\ [][NextWrite]_vars

-----------------------------------------------------------------------------
(* SpecRestore: RestoreBackup calls against a directory that holds backups, *)
(* every I/O call of which may fail; the clock may tick between two steps.  *)

\* What the files hold
RestoreData ==
    {Serialize(<<Parsed(KeyA, <<"1">>, 1)>>),
     Serialize(<<Parsed(KeyA, <<"2">>, 1), ParsedComment(2)>>)}

InitRestore ==
    /\ \E t \in {Absent} \cup {File(c) : c \in RestoreData},
          b \in [Times -> {Absent} \cup {File(c) : c \in RestoreData}] :
          disk = [p \in Paths |-> IF p = WritePath
                                  THEN [target |-> t, tmp |-> Absent, backups |-> b,
                                        preRestore |-> NoBackups]
                                  ELSE NoDir]
    /\ clock = 0
    /\ wf = IdleFrame
    /\ rf = IdleRestore
    /\ changeStack = NewChangeStack(0)
    /\ result = NoResult
    /\ envFiles = <<>>
    /\ currentFileIndex = 1
    /\ listView = <<>>
    /\ viewMode = "List"
    /\ err = ""
    /\ prior = <<>>
    /\ failures = 0
    /\ edits = 0
    /\ heap = <<>>
    /\ originalStates = <<>>

RestoreIdle == <<changeStack, result, envFiles, currentFileIndex, listView, viewMode,
                 err, prior, edits, heap, originalStates, wf>>

\* storage.RestoreBackup(backup.Path, filePath) called with the backup of second t
RBCall(p, t) ==
    /\ rf.pc \in {"idle", "done"}
    /\ rf' = RestoreCall(p, t, disk[p])
    /\ UNCHANGED <<disk, clock, failures>>
    /\ UNCHANGED RestoreIdle

\* One I/O call of the RestoreBackup in progress, with any of its outcomes
RestoreStepped(o) ==
    LET s == RestoreStep(rf, disk[rf.path], clock, o)
    IN /\ o.ok \/ failures < MaxFailures
       /\ failures' = IF o.ok THEN failures ELSE failures + 1
       /\ rf' = s.frame
       /\ disk' = [disk EXCEPT ![rf.path] = s.dir]
       /\ UNCHANGED clock
       /\ UNCHANGED RestoreIdle

RBOpen ==
    /\ rf.pc = "open"
    /\ \E o \in RestoreOutcomes(rf, disk[rf.path]) : RestoreStepped(o)

RBSafety ==
    /\ rf.pc = "safety"
    /\ \E o \in RestoreOutcomes(rf, disk[rf.path]) : RestoreStepped(o)

RBCreate ==
    /\ rf.pc = "create"
    /\ \E o \in RestoreOutcomes(rf, disk[rf.path]) : RestoreStepped(o)

RBCopy ==
    /\ rf.pc = "copy"
    /\ \E o \in RestoreOutcomes(rf, disk[rf.path]) : RestoreStepped(o)

NextRestore ==
    \/ \E t \in Times : RBCall(WritePath, t)
    \/ RBOpen
    \/ RBSafety
    \/ RBCreate
    \/ RBCopy
    \/ Tick

SpecRestore == InitRestore /\ [][NextRestore]_vars

-----------------------------------------------------------------------------
(* SpecList: ListBackups on a directory where files appear and go.  Here   *)
(* disk is the directory ListBackups globs: the base name of the env file  *)
(* it is called for, and the names of the files next to it.                *)

\* The env files: .env, and a backup of it opened as an env file
EnvBase == <<".","e","n","v">>

BackupBase == <<".","e","n","v",".","b","a","c","k","u","p",".","2","0","2","4","0","1","0","1","-","1","2","0","0","0","0">>

\* The names files of the directory may have
SiblingNames ==
    {<<".","e","n","v",".","b","a","c","k","u","p",".","2","0","2","4","0","1","0","1","-","1","2","0","0","0","0">>,
     <<".","e","n","v",".","b","a","c","k","u","p",".","2","0","2","4","0","1","0","1","-","1","2","0","0","0","1">>,
     <<".","e","n","v",".","b","a","c","k","u","p",".","2","0","2","4","0","2","2","9","-","2","3","5","9","5","9">>,
     <<".","e","n","v",".","b","a","c","k","u","p",".","2","0","2","3","0","2","2","9","-","0","0","0","0","0","0">>,
     <<".","e","n","v",".","b","a","c","k","u","p",".","p","r","e","-","r","e","s","t","o","r","e",".","2","0","2","4","0","1","0","1","-","1","2","0","0","0","0">>,
     <<".","e","n","v",".","b","a","c","k","u","p",".">>,
     <<".","e","n","v",".","b","a","c","k","u","p",".","2","0","2","4","0","1","0","1","-","1","2","0","0","0","0",".","5">>,
     <<".","e","n","v",".","b","a","c","k","u","p",".","2","0","2","4","0","1","0","1","-","1","2","0","0","0","0",".","b","a","c","k","u","p",".","2","0","2","4","0","1","0","1","-","1","2","0","0","0","1">>,
     <<".","e","n","v",".","b","a","c","k","u","p",".","2","0","2","4","0","1","0","1","-","1","2","0","0","0","0",".","b","a","c","k","u","p",".","2","0","2","4","0","2","2","9","-","2","3","5","9","5","9">>}

Listing(op, backups) == [op |-> op, backups |-> backups]

InitList ==
    /\ \E base \in {EnvBase, BackupBase} : disk = [path |-> base, names |-> {base}]
    /\ result = Listing("", <<>>)
    /\ clock = 0
    /\ wf = IdleFrame
    /\ rf = IdleRestore
    /\ changeStack = NewChangeStack(0)
    /\ envFiles = <<>>
    /\ currentFileIndex = 1
    /\ listView = <<>>
    /\ viewMode = "List"
    /\ err = ""
    /\ prior = <<>>
    /\ failures = 0
    /\ edits = 0
    /\ heap = <<>>
    /\ originalStates = <<>>

ListIdle == <<changeStack, envFiles, currentFileIndex, listView, viewMode, err,
              clock, wf, rf, prior, failures, edits, heap, originalStates>>

\* A file is written next to the env file (a backup, by CreateBackup or
\* RestoreBackup, or any file by another program)
FileAppears(name) ==
    /\ name \notin disk.names
    /\ disk' = [disk EXCEPT !.names = @ \cup {name}]
    /\ result' = Listing("", <<>>)
    /\ UNCHANGED ListIdle

\* DeleteBackup(backupPath): os.Remove
DeleteBackup(name) ==
    /\ name \in disk.names
    /\ name # disk.path
    /\ disk' = [disk EXCEPT !.names = @ \ {name}]
    /\ result' = Listing("", <<>>)
    /\ UNCHANGED ListIdle

\* Key "b": storage.ListBackups(envFile.Path)
ListDir ==
    /\ \E l \in ListBackups(disk.path, disk.names) : result' = Listing("ListBackups", l)
    /\ UNCHANGED disk
    /\ UNCHANGED ListIdle

NextList ==
    \/ \E name \in SiblingNames : FileAppears(name)
    \/ \E name \in SiblingNames : DeleteBackup(name)
    \/ ListDir

SpecList == InitList /\ [][NextList]_vars

-----------------------------------------------------------------------------
(* Spec: the application Model (app.go), one action per key handler.  The  *)
(* handlers run to completion, WriteFile included, and the WriteFile may    *)
(* fail.                                                                   *)

\* model.NewChangeStack(100) in NewMultiFile
ChangeStackCapacity == 100

FilePaths == <<"f1", "f2">>

\* The documents the two files hold at start, as Parse reads them
InitialDocs ==
    << <<Parsed(KeyA, <<"1">>, 1), Parsed(KeyB, <<"2">>, 2)>>,
       <<ParsedComment(1), Parsed(KeyA, <<"2">>, 2)>> >>

\* views.NewListView(envFile.FilterEntries("")): the list holds pointers to the
\* document's key-value entries.  A pointer is the entry's position in the
\* current document (ref); a pointer to an entry the document no longer holds
\* has ref 0 and keeps the entry's fields (entry).
NewListView(entries) ==
    LET idx == KeyValueIndices(entries, 1)
    IN [k \in 1..Len(idx) |-> [ref |-> idx[k], entry |-> NoEntry]]

\* What the pointers of the list turn into when the document drops entry i
\* (i = 0: nothing was dropped)
ListAfterDelete(lv, entries, i) ==
    [k \in 1..Len(lv) |->
        IF i = 0 \/ lv[k].ref = 0 \/ lv[k].ref < i THEN lv[k]
        ELSE IF lv[k].ref = i THEN [ref |-> 0, entry |-> entries[i]]
        ELSE [ref |-> lv[k].ref - 1, entry |-> NoEntry]]

CurrentEnvFile == envFiles[currentFileIndex]

\* The entry a pointer of the list leads to
Deref(item) ==
    IF item.ref = 0 THEN item.entry ELSE CurrentEnvFile.Entries[item.ref]

\* The copy of the entry that TrackChange and Undo/Redo allocate: every field
CopyEntry(e) == Entry(e.Type, e.Key, e.Value, e.Comment, e.Line, e.Exported, e.IsSecret)

\* The history entry of the model's own bookkeeping, kept in step with Push:
\* the document the change was recorded on, before and after the action.
Recorded(path, before, after) == [path |-> path, before |-> before, after |-> after]

Init ==
    /\ envFiles = [i \in 1..Len(FilePaths) |-> EnvFile(FilePaths[i], InitialDocs[i])]
    /\ currentFileIndex = 1
    /\ listView = NewListView(envFiles[1].Entries)
    /\ viewMode = "List"
    /\ err = ""
    /\ changeStack = NewChangeStack(ChangeStackCapacity)
    /\ result = NoResult
    /\ disk = [p \in Paths |->
                  LET i == CHOOSE j \in 1..Len(FilePaths) : FilePaths[j] = p
                  IN [target |-> File(Serialize(envFiles[i].Entries)),
                      tmp |-> Absent, backups |-> NoBackups,
                      preRestore |-> NoBackups]]
    /\ clock = 0
    /\ wf = IdleFrame
    /\ prior = <<>>
    /\ failures = 0
    /\ edits = 0
    /\ heap = <<>>
    /\ originalStates = envFiles
    /\ rf = IdleRestore

\* Model.TrackChange followed by the bookkeeping of prior
Track(changeType, entry, oldValue, before, after) ==
    LET change == Change(changeType, CurrentEnvFile.Path, CopyEntry(entry), oldValue)
    IN /\ edits < MaxEdits
       /\ edits' = edits + 1
       /\ changeStack' = Push(changeStack, change)
       /\ prior' = Append(SubSeq(prior, 1, changeStack.current + 1),
                          Recorded(CurrentEnvFile.Path, before, after))

\* The failure plans the handlers are run against: nothing fails, the write of
\* the first entry fails (the temporary file stays), or the rename does (the
\* temporary file is removed). The handlers read only the error; SpecWrite goes
\* through every failing call and every partial write.
HandlerPlans(entries, d) ==
    {plan \in Plans(entries, d) :
        /\ plan.at \in {"ok", "write", "rename"}
        /\ plan.k <= 1
        /\ plan.o.n = 0}

\* storage.WriteFile(envFile) on the current file, holding newEntries, and what
\* the handler does with its result: on an error it sets m.err and returns (the
\* list keeps its pointers, staleList), else it rebuilds the list.
Save(newEntries, staleList) ==
    LET path == CurrentEnvFile.Path
    IN \E plan \in HandlerPlans(newEntries, disk[path]) :
          LET w == WriteFile(path, newEntries, disk[path], clock, plan)
              failed == w.frame.err # ""
          IN /\ ~failed \/ failures < MaxFailures
             /\ failures' = IF failed THEN failures + 1 ELSE failures
             /\ envFiles' = [envFiles EXCEPT ![currentFileIndex].Entries = newEntries]
             /\ disk' = [disk EXCEPT ![path] = w.dir]
             /\ err' = IF failed THEN w.frame.err ELSE err
             /\ listView' = IF failed THEN staleList ELSE NewListView(newEntries)

\* Keys "1".."9" in the list: Model.SwitchToFile
KeySwitch(idx) ==
    /\ viewMode = "List"
    /\ idx <= Len(envFiles)
    /\ currentFileIndex' = idx
    /\ listView' = NewListView(envFiles[idx].Entries)
    /\ UNCHANGED <<changeStack, result, envFiles, viewMode, err, disk, clock, wf,
                   prior, failures, edits, heap, originalStates, rf>>

\* Key "a" in the list
KeyAdd ==
    /\ viewMode = "List"
    /\ viewMode' = "Add"
    /\ UNCHANGED <<changeStack, result, envFiles, currentFileIndex, listView, err,
                   disk, clock, wf, prior, failures, edits, heap,
                   originalStates, rf>>

\* Key "e" in the list, with an entry selected
KeyEdit ==
    /\ viewMode = "List"
    /\ listView # <<>>
    /\ viewMode' = "Edit"
    /\ UNCHANGED <<changeStack, result, envFiles, currentFileIndex, listView, err,
                   disk, clock, wf, prior, failures, edits, heap,
                   originalStates, rf>>

\* handleEditKeys "esc", and "enter" with an empty key
EditCancel ==
    /\ viewMode \in {"Edit", "Add"}
    /\ viewMode' = "List"
    /\ UNCHANGED <<changeStack, result, envFiles, currentFileIndex, listView, err,
                   disk, clock, wf, prior, failures, edits, heap,
                   originalStates, rf>>

\* handleEditKeys "enter" in add mode, with the key and value typed
EnterAdd(key, value) ==
    LET before == CurrentEnvFile.Entries
        entry == Entry(KeyValueEntry, key, value, <<>>, 0, FALSE, isSecretKey(key))
        after == AddEntry(before, entry)
    IN /\ viewMode = "Add"
       /\ Len(before) < MaxEntries
       /\ Track(ChangeTypeAdd, entry, <<>>, before, after)
       /\ Save(after, listView)
       /\ viewMode' = "List"
       /\ UNCHANGED <<result, currentFileIndex, clock, wf, heap, originalStates, rf>>

\* handleEditKeys "enter" in edit mode, with the key and value typed
EnterUpdate(key, value) ==
    LET before == CurrentEnvFile.Entries
        oldEntry == GetEntry(before, key)
        oldValue == IF oldEntry # NoEntry THEN oldEntry.Value ELSE <<>>
        after == UpdateEntry(before, key, value)
        updatedEntry == Entry(KeyValueEntry, key, value, <<>>, 0, FALSE, isSecretKey(key))
    IN /\ viewMode = "Edit"
       /\ Track(ChangeTypeUpdate, updatedEntry, oldValue, before, after)
       /\ Save(after, listView)
       /\ viewMode' = "List"
       /\ UNCHANGED <<result, currentFileIndex, clock, wf, heap, originalStates, rf>>

\* Key "d" in the list, with entry s of the list selected
KeyDelete(s) ==
    LET before == CurrentEnvFile.Entries
        selected == Deref(listView[s])
        after == DeleteEntry(before, selected.Key)
    IN /\ viewMode = "List"
       /\ s \in 1..Len(listView)
       /\ Track(ChangeTypeDelete, selected, <<>>, before, after)
       /\ Save(after,
               ListAfterDelete(listView, before, FirstIndex(before, selected.Key)))
       /\ UNCHANGED <<result, currentFileIndex, viewMode, clock, wf, heap, originalStates, rf>>

\* The switch of Model.Undo: the inverse of the change, on these entries
UndoChange(entries, change) ==
    IF change.Type = ChangeTypeAdd THEN DeleteEntry(entries, change.Entry.Key)
    ELSE IF change.Type = ChangeTypeUpdate
    THEN UpdateEntry(entries, change.Entry.Key, change.OldValue)
    ELSE AddEntry(entries, CopyEntry(change.Entry))

\* The switch of Model.Redo: the change again, on these entries
RedoChange(entries, change) ==
    IF change.Type = ChangeTypeAdd THEN AddEntry(entries, CopyEntry(change.Entry))
    ELSE IF change.Type = ChangeTypeUpdate
    THEN UpdateEntry(entries, change.Entry.Key, change.Entry.Value)
    ELSE DeleteEntry(entries, change.Entry.Key)

\* The list's pointers after the switch of Undo or Redo changed the document
ListAfterChange(lv, entries, change, deletes) ==
    IF deletes THEN ListAfterDelete(lv, entries, FirstIndex(entries, change.Entry.Key))
    ELSE lv

\* Key "u" in the list: Model.Undo
KeyUndo ==
    LET u == Undo(changeStack)
        before == CurrentEnvFile.Entries
        after == UndoChange(before, u.change)
    IN /\ viewMode = "List"
       /\ changeStack' = u.cs
       /\ IF ~u.ok
          THEN UNCHANGED <<envFiles, listView, err, disk, failures>>
          ELSE /\ Len(after) <= MaxEntries
               /\ Save(after,
                       ListAfterChange(listView, before, u.change,
                                       u.change.Type = ChangeTypeAdd))
       /\ UNCHANGED <<result, currentFileIndex, viewMode, clock, wf, prior, edits, heap,
                   originalStates, rf>>

\* Key "r" in the list: Model.Redo
KeyRedo ==
    LET r == Redo(changeStack)
        before == CurrentEnvFile.Entries
        after == RedoChange(before, r.change)
    IN /\ viewMode = "List"
       /\ changeStack' = r.cs
       /\ IF ~r.ok
          THEN UNCHANGED <<envFiles, listView, err, disk, failures>>
          ELSE /\ Len(after) <= MaxEntries
               /\ Save(after,
                       ListAfterChange(listView, before, r.change,
                                       r.change.Type = ChangeTypeDelete))
       /\ UNCHANGED <<result, currentFileIndex, viewMode, clock, wf, prior, edits, heap,
                   originalStates, rf>>

Next ==
    \/ \E idx \in 1..Len(FilePaths) : KeySwitch(idx)
    \/ KeyAdd
    \/ KeyEdit
    \/ EditCancel
    \/ \E key \in Keys, value \in Values : EnterAdd(key, value)
    \/ \E key \in Keys, value \in Values : EnterUpdate(key, value)
    \/ \E s \in 1..MaxEntries : KeyDelete(s)
    \/ KeyUndo
    \/ KeyRedo

Spec == Init /\ [][Next]_vars

-----------------------------------------------------------------------------
(* SpecMem: the document, the history and the clone taken at load as Go    *)
(* holds them, by pointer.  heap[a] is the Entry object at address a; here *)
(* envFiles[1].Entries, originalStates[1].Entries and Change.Entry hold    *)
(* addresses ([]*Entry, *Entry).  The handlers are those of Spec without   *)
(* their I/O.                                                              *)

\* The entries a slice of pointers leads to
View(h, ptrs) == [i \in 1..Len(ptrs) |-> h[ptrs[i]]]

\* &model.Entry{...}: a new object; [heap, addr]
New(h, e) == [heap |-> Append(h, e), addr |-> Len(h) + 1]

\* TrackChange that stores the pointer it is given.
TrackedEntryAliased(h, entry) == [heap |-> h, addr |-> entry]

\* The Entry of the Change TrackChange builds: a new object with the fields of
\* the entry it is given; [heap, addr]
TrackedEntry(h, entry) == New(h, CopyEntry(h[entry]))

\* Clone that copies the slice and shares the entries.
CloneShared(h, ptrs) == [heap |-> h, entries |-> ptrs]

\* EnvFile.Clone: a new object per entry; [heap, entries]
RECURSIVE Clone(_, _)
Clone(h, ptrs) ==
    IF ptrs = <<>> THEN [heap |-> h, entries |-> <<>>]
    ELSE LET n == New(h, CopyEntry(h[Head(ptrs)]))
             rest == Clone(n.heap, Tail(ptrs))
         IN [heap |-> rest.heap, entries |-> <<n.addr>> \o rest.entries]

\* EnvFile.UpdateEntry on the objects: entry.Value = value, in place
UpdateInPlace(h, ptrs, key, value) ==
    LET updated == UpdateEntry(View(h, ptrs), key, value)
    IN [a \in 1..Len(h) |->
          IF \E i \in 1..Len(ptrs) : ptrs[i] = a
          THEN updated[CHOOSE i \in 1..Len(ptrs) : ptrs[i] = a]
          ELSE h[a]]

\* EnvFile.DeleteEntry on the slice of pointers
DeleteFromSlice(h, ptrs, key) ==
    LET i == FirstIndex(View(h, ptrs), key)
    IN IF i = 0 THEN ptrs
       ELSE SubSeq(ptrs, 1, i - 1) \o SubSeq(ptrs, i + 1, Len(ptrs))

\* The live document's slice, and the entries it leads to
LiveEntries == envFiles[1].Entries

LiveView == View(heap, LiveEntries)

\* The clone's entries
OriginalView == View(heap, originalStates[1].Entries)

\* The documents SpecMem loads: those of Spec, and one with room for an add
MemDocs == {InitialDocs[1], InitialDocs[2], <<Parsed(KeyA, <<"1">>, 1)>>}

\* NewMultiFile: ReadFile allocates the document, Clone the original state
InitMem ==
    /\ \E doc \in MemDocs :
          LET ptrs == [i \in 1..Len(doc) |-> i]
              clone == Clone(doc, ptrs)
          IN /\ envFiles = <<EnvFile("f1", ptrs)>>
             /\ originalStates = <<EnvFile("f1", clone.entries)>>
             /\ heap = clone.heap
    /\ currentFileIndex = 1
    /\ changeStack = NewChangeStack(ChangeStackCapacity)
    /\ result = DocCalled("", <<>>, <<>>, FALSE, <<>>)
    /\ listView = <<>>
    /\ viewMode = "List"
    /\ err = ""
    /\ disk = [p \in Paths |-> NoDir]
    /\ clock = 0
    /\ wf = IdleFrame
    /\ prior = <<>>
    /\ failures = 0
    /\ edits = 0
    /\ rf = IdleRestore

MemIdle == <<currentFileIndex, listView, viewMode, err, disk, clock, wf, prior,
             failures, originalStates, rf>>

\* The state after a handler: the heap, the live slice, the stack
MemStep(op, key, value, h, ptrs, cs) ==
    /\ Len(h) <= MaxHeap
    /\ heap' = h
    /\ envFiles' = [envFiles EXCEPT ![1].Entries = ptrs]
    /\ changeStack' = cs
    /\ result' = DocCalled(op, key, value, TRUE, LiveView)
    /\ UNCHANGED MemIdle

\* handleEditKeys "enter" in add mode: the new entry, AddEntry, TrackChange
MemAdd(key, value) ==
    LET n == New(heap, Entry(KeyValueEntry, key, value, <<>>, 0, FALSE, isSecretKey(key)))
        t == TrackedEntry(n.heap, n.addr)
    IN /\ edits < MaxEdits
       /\ Len(LiveEntries) < MaxEntries
       /\ edits' = edits + 1
       /\ MemStep("Add", key, value, t.heap, AddEntry(LiveEntries, n.addr),
                  Push(changeStack, Change(ChangeTypeAdd, "f1", t.addr, <<>>)))

\* handleEditKeys "enter" in edit mode: UpdateEntry, updatedEntry, TrackChange
MemUpdate(key, value) ==
    LET oldEntry == GetEntry(LiveView, key)
        oldValue == IF oldEntry # NoEntry THEN oldEntry.Value ELSE <<>>
        n == New(UpdateInPlace(heap, LiveEntries, key, value),
                 Entry(KeyValueEntry, key, value, <<>>, 0, FALSE, isSecretKey(key)))
        t == TrackedEntry(n.heap, n.addr)
    IN /\ edits < MaxEdits
       /\ edits' = edits + 1
       /\ MemStep("Update", key, value, t.heap, LiveEntries,
                  Push(changeStack, Change(ChangeTypeUpdate, "f1", t.addr, oldValue)))

\* Key "d" with the s-th entry of the list selected: TrackChange, DeleteEntry
MemDelete(s) ==
    LET shown == KeyValueIndices(LiveView, 1)
        selected == LiveEntries[shown[s]]
        t == TrackedEntry(heap, selected)
    IN /\ edits < MaxEdits
       /\ s \in 1..Len(shown)
       /\ edits' = edits + 1
       /\ MemStep("Delete", heap[selected].Key, <<>>, t.heap,
                  DeleteFromSlice(heap, LiveEntries, heap[selected].Key),
                  Push(changeStack, Change(ChangeTypeDelete, "f1", t.addr, <<>>)))

\* Model.Undo without its WriteFile
MemUndo ==
    LET u == Undo(changeStack)
        e == heap[u.change.Entry]
        n == New(heap, CopyEntry(e))
    IN /\ u.ok
       /\ UNCHANGED edits
       /\ IF u.change.Type = ChangeTypeAdd
          THEN MemStep("Undo", e.Key, <<>>, heap,
                       DeleteFromSlice(heap, LiveEntries, e.Key), u.cs)
          ELSE IF u.change.Type = ChangeTypeUpdate
          THEN MemStep("Undo", e.Key, u.change.OldValue,
                       UpdateInPlace(heap, LiveEntries, e.Key, u.change.OldValue),
                       LiveEntries, u.cs)
          ELSE MemStep("Undo", e.Key, e.Value, n.heap, AddEntry(LiveEntries, n.addr), u.cs)

\* Model.Redo without its WriteFile
MemRedo ==
    LET r == Redo(changeStack)
        e == heap[r.change.Entry]
        n == New(heap, CopyEntry(e))
    IN /\ r.ok
       /\ UNCHANGED edits
       /\ IF r.change.Type = ChangeTypeAdd
          THEN MemStep("Redo", e.Key, e.Value, n.heap, AddEntry(LiveEntries, n.addr), r.cs)
          ELSE IF r.change.Type = ChangeTypeUpdate
          THEN MemStep("Redo", e.Key, e.Value,
                       UpdateInPlace(heap, LiveEntries, e.Key, e.Value),
                       LiveEntries, r.cs)
          ELSE MemStep("Redo", e.Key, <<>>, heap,
                       DeleteFromSlice(heap, LiveEntries, e.Key), r.cs)

NextMem ==
    \/ \E key \in Keys, value \in Values : MemAdd(key, value)
    \/ \E key \in Keys, value \in Values : MemUpdate(key, value)
    \/ \E s \in 1..MaxEntries : MemDelete(s)
    \/ MemUndo
    \/ MemRedo

SpecMem == InitMem /\ [][NextMem]_vars

-----------------------------------------------------------------------------
(* SpecParse: a file is read and parsed, one pass of the loop of Parse at a *)
(* time, loaded into the Model and edited through the add and update        *)
(* branches of handleEditKeys, which write it back; the program may then be *)
(* started again on the file it wrote.  Here disk is the one file, [data,   *)
(* writes], and result is the frame of the ReadFile call together with      *)
(* Model.validationIssues.  The writes succeed; their failures are          *)
(* SpecWrite's.                                                             *)

\* The lines the files are made of
SampleLines ==
    { <<>>,
      <<" ","#","c">>,
      <<"A","=","1">>,
      <<"e","x","p","o","r","t"," ","A","=","1">>,
      <<"A">>,
      <<"1","A","=","1">>,
      <<"é","=","1">>,
      <<"K","E","Y","=","\"","a","\\","n","b","\\","t","c","\"">>,
      <<"A","=","'","\\","n","'">>,
      <<"A","=","\"","x"," ">>,
      <<"y","\"">>,
      <<"K","E","Y","=","v","a","l","u","e"," ","#"," ","n","o","t","e">>,
      <<"A","=","\"","x","#","y","\"">>,
      <<"A","=","\"","x","\""," ","#","c">>,
      <<"k","e","y","=","1">>,
      <<"A","=","\"","\\","r","\\","\\","\\","\"","\\","'","\\","x","\"">>,
      <<"A","=","\\","n">> }

\* The texts of at most n lines, the lines joined by "\n"
RECURSIVE TextsOf(_)
TextsOf(n) ==
    IF n = 1 THEN SampleLines
    ELSE TextsOf(n - 1)
         \cup {t \o <<"\n">> \o l : t \in {x \in TextsOf(n - 1) : Len(Split(x, <<"\n">>)) = n - 1},
                                    l \in SampleLines}

\* Join(ls): the lines ls joined by "\n"
RECURSIVE Join(_)
Join(ls) ==
    IF Len(ls) = 1 THEN ls[1]
    ELSE ls[1] \o <<"\n">> \o Join(Tail(ls))

\* Longer files: a quoted value that closes on the next line and is followed
\* by an entry, one that runs over a line without "=", a comment and closes
\* before a blank line, one that never closes, and a key on three lines
LongTexts ==
    { Join(<< <<"A","=","\"","x"," ">>, <<"y","\"">>, <<"A","=","1">> >>),
      Join(<< <<"A","=","'","x">>, <<"A">>, <<" ","#","c">>, <<"y","'"," ","#","c">>, <<>> >>),
      Join(<< <<"A","=","\"","x"," ">>, <<"A","=","1">>, <<"y","\\">> >>),
      Join(<< <<"A","=","1">>, <<"A","=","2">>, <<"A","=","3">> >>) }

\* Files of one exported line, and of one line whose key begins with the
\* word export
ExportTexts ==
    { <<"e","x","p","o","r","t"," ","N","O","D","E","_","E","N","V","=",
        "p","r","o","d","u","c","t","i","o","n">>,
      <<"e","x","p","o","r","t","A","=","1">>,
      <<" ","e","x","p","o","r","t"," "," ","A"," ","=","1">> }

\* The keys and the value typed into the edit view
TypedKeys == {<<"A">>, <<"k","e","y">>}

TypedValue == <<"1">>

ParseFrame(op, input, lines, i, entries, issues) ==
    [op |-> op, input |-> input, lines |-> lines, i |-> i, entries |-> entries,
     err |-> "", issues |-> issues]

InitParse ==
    /\ \E t \in TextsOf(MaxLines) \cup LongTexts \cup ExportTexts :
           disk = [data |-> t, writes |-> 0]
    /\ result = ParseFrame("", <<>>, <<>>, 0, <<>>, <<>>)
    /\ envFiles = <<>>
    /\ originalStates = <<>>
    /\ listView = <<>>
    /\ changeStack = NewChangeStack(ChangeStackCapacity)
    /\ currentFileIndex = 1
    /\ viewMode = "List"
    /\ err = ""
    /\ clock = 0
    /\ wf = IdleFrame
    /\ prior = <<>>
    /\ failures = 0
    /\ edits = 0
    /\ heap = <<>>
    /\ rf = IdleRestore

ParseIdle == <<currentFileIndex, viewMode, err, clock, wf, prior, failures, edits,
               heap, rf>>

\* The program is started, the first time or again after a write:
\* NewMultiFile calls storage.ReadFile, which calls parser.Parse
ReadFile ==
    /\ result.op \in {"", "NewMultiFile", "handleEditKeys"}
    /\ envFiles = <<>> \/ disk.writes > 0
    /\ result' = ParseFrame("Parse", disk.data, Split(disk.data, <<"\n">>), 0, <<>>, <<>>)
    /\ envFiles' = <<>>
    /\ originalStates' = <<>>
    /\ listView' = <<>>
    /\ changeStack' = NewChangeStack(ChangeStackCapacity)
    /\ UNCHANGED disk
    /\ UNCHANGED ParseIdle

\* One pass of the loop of Parse
ParseLoop ==
    /\ result.op = "Parse"
    /\ result.i < Len(result.lines)
    /\ LET pass == ParseLine(result.lines, result.i)
       IN result' = [result EXCEPT !.i = pass.i, !.entries = @ \o pass.append]
    /\ UNCHANGED <<disk, envFiles, originalStates, listView, changeStack>>
    /\ UNCHANGED ParseIdle

\* The loop ends: Parse returns (envFile, nil) and ReadFile returns it
ParseReturn ==
    /\ result.op = "Parse"
    /\ result.i >= Len(result.lines)
    /\ result' = [result EXCEPT !.op = "ReadFile", !.err = ""]
    /\ UNCHANGED <<disk, envFiles, originalStates, listView, changeStack>>
    /\ UNCHANGED ParseIdle

\* NewMultiFile with the file ReadFile returned
NewMultiFile ==
    /\ result.op = "ReadFile"
    /\ envFiles' = <<EnvFile("f1", result.entries)>>
    /\ originalStates' = <<EnvFile("f1", result.entries)>>
    /\ listView' = NewListView(result.entries)
    /\ result' = [result EXCEPT !.op = "NewMultiFile", !.issues = Validate(result.entries)]
    /\ UNCHANGED <<disk, changeStack>>
    /\ UNCHANGED ParseIdle

\* What both branches of handleEditKeys end with: TrackChange, WriteFile, the
\* new list and Validate
Written(after, change) ==
    /\ disk.writes < MaxWrites
    /\ envFiles' = <<EnvFile("f1", after)>>
    /\ changeStack' = Push(changeStack, change)
    /\ disk' = [data |-> Serialize(after), writes |-> disk.writes + 1]
    /\ listView' = NewListView(after)
    /\ result' = [result EXCEPT !.op = "handleEditKeys", !.issues = Validate(after)]
    /\ UNCHANGED originalStates
    /\ UNCHANGED ParseIdle

\* handleEditKeys "enter" in add mode
ParseEnterAdd(key, value) ==
    LET entry == Entry(KeyValueEntry, key, value, <<>>, 0, FALSE, isSecretKey(key))
    IN /\ result.op \in {"NewMultiFile", "handleEditKeys"}
       /\ Written(AddEntry(envFiles[1].Entries, entry),
                  Change(ChangeTypeAdd, "f1", CopyEntry(entry), <<>>))

\* handleEditKeys "enter" in edit mode
ParseEnterUpdate(key, value) ==
    LET before == envFiles[1].Entries
        oldEntry == GetEntry(before, key)
        oldValue == IF oldEntry # NoEntry THEN oldEntry.Value ELSE <<>>
        updatedEntry == Entry(KeyValueEntry, key, value, <<>>, 0, FALSE, isSecretKey(key))
    IN /\ result.op \in {"NewMultiFile", "handleEditKeys"}
       /\ Written(UpdateEntry(before, key, value),
                  Change(ChangeTypeUpdate, "f1", CopyEntry(updatedEntry), oldValue))

NextParse ==
    \/ ReadFile
    \/ ParseLoop
    \/ ParseReturn
    \/ NewMultiFile
    \/ \E key \in TypedKeys : ParseEnterAdd(key, TypedValue)
    \/ ParseEnterUpdate(<<"A">>, TypedValue)

SpecParse == InitParse /\ [][NextParse]_vars

-----------------------------------------------------------------------------
(* Claims about Parse and Validate (SpecParse) *)

\* The (key, value, exported) tuples of the key-value entries, in order
KeyValueTuples(entries) ==
    LET idx == KeyValueIndices(entries, 1)
    IN [k \in 1..Len(idx) |->
           <<entries[idx[k]].Key, entries[idx[k]].Value, entries[idx[k]].Exported>>]

\* C21: when Parse has returned a document, parsing the text that
\* serializing it gives (each entry's String() and a newline) yields the
\* same (key, value, exported) tuples in the same order.
RoundTripKeepsKeyValues ==
    result.op = "ReadFile" =>
        KeyValueTuples(Parse(Serialize(result.entries))) = KeyValueTuples(result.entries)

\* The lines of a text file: a final "\n" ends the last line and begins none
TextLines(text) ==
    LET parts == Split(text, <<"\n">>)
    IN IF parts[Len(parts)] = <<>> THEN SubSeq(parts, 1, Len(parts) - 1) ELSE parts

IsBlankLine(line) == TrimSpace(line) = <<>>

IsCommentLine(line) == HasPrefix(TrimSpace(line), <<"#">>)

\* The comment lines of a text, in order, as they are written
CommentLines(text) == SelectSeq(TextLines(text), IsCommentLine)

\* The numbers of the blank lines of a text
BlankLines(text) == {n \in 1..Len(TextLines(text)) : IsBlankLine(TextLines(text)[n])}

\* C22: when Parse has returned the document of an input text, serializing
\* it gives a text with the same comment lines, byte for byte and in order,
\* and with blank lines at the same line numbers and nowhere else.
SerializeKeepsCommentsAndBlanks ==
    result.op = "ReadFile" =>
        /\ CommentLines(Serialize(result.entries)) = CommentLines(result.input)
        /\ BlankLines(Serialize(result.entries)) = BlankLines(result.input)

\* The positions of the key-value entries with this key, in document order
Occurrences(entries, key) ==
    SelectSeq(KeyValueIndices(entries, 1), LAMBDA i : entries[i].Key = key)

\* The duplicate-key errors among the issues for this key, in order
DuplicateErrors(issues, key) ==
    SelectSeq(issues, LAMBDA x : /\ x.Level = ValidationError
                                 /\ x.Key = key
                                 /\ Len(x.Message) = 3)

\* C23: when Validate has run on the document, a key that occurs k >= 2
\* times has exactly k-1 duplicate-key errors, the j-th of them on the line
\* of occurrence j+1, and each of them names the line of the first occurrence.
DuplicatesReferenceFirstOccurrence ==
    result.op \in {"NewMultiFile", "handleEditKeys"} =>
        LET entries == envFiles[1].Entries
        IN \A p \in 1..Len(entries) :
              LET occ == Occurrences(entries, entries[p].Key)
                  dup == DuplicateErrors(result.issues, entries[p].Key)
              IN (entries[p].Type = KeyValueEntry /\ Len(occ) >= 2) =>
                    /\ Len(dup) = Len(occ) - 1
                    /\ \A j \in 1..Len(dup) :
                          /\ dup[j].Line = entries[occ[j + 1]].Line
                          /\ dup[j].Message[3] = entries[occ[1]].Line

\* The line without its export prefix, what is left of its first "=" and
\* what is right of it
ExportWord == <<"e","x","p","o","r","t"," ">>

LineBody(line) ==
    LET t == TrimSpace(line)
    IN IF HasPrefix(t, ExportWord)
       THEN TrimSpace(SubSeq(t, Len(ExportWord) + 1, Len(t)))
       ELSE t

Lhs(line) == TrimSpace(SubSeq(LineBody(line), 1, Index(LineBody(line), <<"=">>) - 1))

Rhs(line) ==
    TrimSpace(SubSeq(LineBody(line), Index(LineBody(line), <<"=">>) + 1,
                     Len(LineBody(line))))

\* Letters, digits and underscores, the first not a digit
Identifier(s) ==
    /\ s # <<>>
    /\ ~IsDigit(s[1])
    /\ \A k \in 1..Len(s) : IsLetter(s[k]) \/ IsDigit(s[k]) \/ s[k] = "_"

\* A line that is not blank, not a comment, and has no "=" or no identifier
\* left of it
Malformed(line) ==
    /\ ~IsBlankLine(line)
    /\ ~IsCommentLine(line)
    /\ Index(LineBody(line), <<"=">>) = 0 \/ ~Identifier(Lhs(line))

KeyValueLine(line) == ~IsBlankLine(line) /\ ~IsCommentLine(line) /\ ~Malformed(line)

\* A pass of the loop of Parse, the line it is at and the entries it appends
Pass == result.op = "Parse" /\ result'.op = "Parse"

PassLine == result.lines[result.i + 1]

Appended == SubSeq(result'.entries, Len(result.entries) + 1, Len(result'.entries))

Decoded(x) ==
    CASE x = "n" -> "\n"
      [] x = "t" -> "\t"
      [] x = "r" -> "\r"
      [] OTHER -> x

\* s with its escapes decoded; a backslash that ends s stays
RECURSIVE DecodeEscapes(_)
DecodeEscapes(s) ==
    IF s = <<>> THEN <<>>
    ELSE IF s[1] = "\\" /\ Len(s) >= 2
    THEN <<Decoded(s[2])>> \o DecodeEscapes(SubSeq(s, 3, Len(s)))
    ELSE <<s[1]>> \o DecodeEscapes(Tail(s))

\* The position of the first quote at or after p in s that is not escaped,
\* 0 when there is none
RECURSIVE ClosingQuote(_, _, _)
ClosingQuote(s, p, quote) ==
    IF p > Len(s) THEN 0
    ELSE IF s[p] = "\\" /\ p < Len(s) THEN ClosingQuote(s, p + 2, quote)
    ELSE IF s[p] = quote THEN p
    ELSE ClosingQuote(s, p + 1, quote)

\* The line opens a value with this quote
Quoted(line, quote) == KeyValueLine(line) /\ Rhs(line) # <<>> /\ Rhs(line)[1] = quote

\* C25: a pass at a line whose value opens with a double quote that closes
\* on the same line appends an entry whose value is the text between the
\* quotes with \n, \t, \r decoded to newline, tab, carriage return and every
\* other \x to x.
DoubleQuotedEscapesAreDecoded ==
    [][ (Pass /\ Quoted(PassLine, "\"") /\ ClosingQuote(Rhs(PassLine), 2, "\"") # 0) =>
            /\ Len(Appended) = 1
            /\ Appended[1].Value =
                  DecodeEscapes(SubSeq(Rhs(PassLine), 2,
                                       ClosingQuote(Rhs(PassLine), 2, "\"") - 1)) ]_vars

\* KEY="a\nb\tc" was parsed to a, newline, b, tab, c, and a value with \r,
\* \\, \", \' and \x to carriage return, backslash, the quotes and x.
ParsedEscapes ==
    /\ result.op = "ReadFile"
    /\ result.lines = << <<"K","E","Y","=","\"","a","\\","n","b","\\","t","c","\"">>,
                         <<"A","=","\"","\\","r","\\","\\","\\","\"","\\","'","\\","x","\"">> >>
    /\ Len(result.entries) = 2
    /\ result.entries[1].Value = <<"a", "\n", "b", "\t", "c">>
    /\ result.entries[2].Value = <<"\r", "\\", "\"", "'", "x">>

\* C26: a pass at a line whose value opens with a single quote that closes
\* on the same line appends an entry whose value is the text between the
\* quotes as it is written, and a pass at a line with an unquoted value
\* appends an entry whose value is the text up to a "#", trimmed, as it is
\* written.
EscapesOnlyInDoubleQuotes ==
    [][ /\ (Pass /\ Quoted(PassLine, "'") /\ Index(Tail(Rhs(PassLine)), <<"'">>) # 0) =>
              /\ Len(Appended) = 1
              /\ Appended[1].Value =
                    SubSeq(Rhs(PassLine), 2, Index(Tail(Rhs(PassLine)), <<"'">>))
        /\ (Pass /\ KeyValueLine(PassLine) /\ Rhs(PassLine) # <<>>
                 /\ Rhs(PassLine)[1] \notin {"\"", "'"}) =>
              /\ Len(Appended) = 1
              /\ Appended[1].Value =
                    (IF Index(Rhs(PassLine), <<"#">>) = 0 THEN Rhs(PassLine)
                     ELSE TrimSpace(SubSeq(Rhs(PassLine), 1,
                                           Index(Rhs(PassLine), <<"#">>) - 1))) ]_vars

\* The number of the first line after line n that holds an unescaped quote,
\* 0 when there is none
ClosingLine(lines, n, quote) ==
    LET c == {m \in (n + 1)..Len(lines) : ClosingQuote(lines[m], 1, quote) # 0}
    IN IF c = {} THEN 0 ELSE CHOOSE m \in c : \A k \in c : m <= k

\* Lines a..b, decoded, each after a newline
RECURSIVE Continued(_, _, _)
Continued(lines, a, b) ==
    IF a > b THEN <<>>
    ELSE <<"\n">> \o DecodeEscapes(lines[a]) \o Continued(lines, a + 1, b)

\* The value and the last line of the quoted value that line n opens and
\* does not close
Multiline(lines, n) ==
    LET rhs == Rhs(lines[n])
        quote == rhs[1]
        first == DecodeEscapes(SubSeq(rhs, 2, Len(rhs)))
        c == ClosingLine(lines, n, quote)
    IN IF c = 0
       THEN [value |-> first \o Continued(lines, n + 1, Len(lines)), last |-> Len(lines)]
       ELSE [value |-> first \o Continued(lines, n + 1, c - 1) \o <<"\n">>
                       \o DecodeEscapes(SubSeq(lines[c], 1,
                                               ClosingQuote(lines[c], 1, quote) - 1)),
             last |-> c]

\* The line opens a quoted value and does not close it
OpensMultiline(line) ==
    /\ KeyValueLine(line)
    /\ Rhs(line) # <<>>
    /\ Rhs(line)[1] \in {"\"", "'"}
    /\ ClosingQuote(Rhs(line), 2, Rhs(line)[1]) = 0

InlineCommentIsKept ==
    [][ /\ (Pass /\ KeyValueLine(PassLine) /\ Rhs(PassLine) # <<>>
                 /\ Rhs(PassLine)[1] \notin {"\"", "'"}
                 /\ Index(Rhs(PassLine), <<"#">>) # 0) =>
              /\ Len(Appended) = 1
              /\ Appended[1].Type = KeyValueEntry
              /\ Appended[1].Comment =
                    SubSeq(Rhs(PassLine), Index(Rhs(PassLine), <<"#">>), Len(Rhs(PassLine)))
              /\ EntryString(Appended[1]) =
                    Appended[1].Key \o <<"=">> \o Appended[1].Value \o <<" ">>
                    \o Appended[1].Comment
        /\ (Pass /\ Quoted(PassLine, "\"") /\ ClosingQuote(Rhs(PassLine), 2, "\"") # 0
                 /\ Index(SubSeq(Rhs(PassLine), ClosingQuote(Rhs(PassLine), 2, "\"") + 1,
                                 Len(Rhs(PassLine))), <<"#">>) # 0) =>
              /\ Len(Appended) = 1
              /\ Appended[1].Comment # <<>> ]_vars

AsciiLetters ==
    {LowerLetters[k] : k \in DOMAIN LowerLetters} \cup {UpperLetters[k] : k \in DOMAIN UpperLetters}

\* [A-Za-z_][A-Za-z0-9_]*
AsciiIdentifier(s) ==
    /\ s # <<>>
    /\ s[1] \in AsciiLetters \cup {"_"}
    /\ \A k \in 1..Len(s) : s[k] \in AsciiLetters \cup {"_"} \/ IsDigit(s[k])

\* C29: every key-value entry Parse has appended has a key that matches
\* [A-Za-z_][A-Za-z0-9_]*.
KeysAreAsciiIdentifiers ==
    \A k \in 1..Len(result.entries) :
        result.entries[k].Type = KeyValueEntry => AsciiIdentifier(result.entries[k].Key)

\* The same letter, in whichever case
SameLetter(a, b) == ToUpperChar(a) = ToUpperChar(b)

\* The key holds the word somewhere, case ignored
HoldsWord(key, word) ==
    \E at \in 0..(Len(key) - Len(word)) :
        \A k \in 1..Len(word) : SameLetter(key[at + k], word[k])

SecretWords ==
    { <<"p","a","s","s","w","o","r","d">>, <<"s","e","c","r","e","t">>,
      <<"t","o","k","e","n">>, <<"k","e","y">>, <<"p","r","i","v","a","t","e">>,
      <<"a","p","i","_","k","e","y">>, <<"a","u","t","h">>,
      <<"c","r","e","d","e","n","t","i","a","l">>, <<"c","e","r","t">> }

\* The key-value entries Parse has appended and those of the loaded document
CreatedEntries ==
    {result.entries[k] : k \in 1..Len(result.entries)}
    \cup (IF envFiles = <<>> THEN {}
          ELSE {envFiles[1].Entries[k] : k \in 1..Len(envFiles[1].Entries)})

\* C30: every key-value entry that Parse or the add branch of
\* handleEditKeys has created is marked secret exactly when its key holds
\* one of the nine words, case ignored.
SecretFlagMatchesKeywords ==
    \A e \in CreatedEntries :
        e.Type = KeyValueEntry =>
            (e.IsSecret <=> \E word \in SecretWords : HoldsWord(e.Key, word))

\* The document holds a parsed entry KEY and an added entry key, both
\* secret, and a parsed entry that is not.
SecretsParsedAndAdded ==
    /\ result.op = "handleEditKeys"
    /\ \E e \in CreatedEntries : e.Key = <<"K","E","Y">> /\ e.Line > 0 /\ e.IsSecret
    /\ \E e \in CreatedEntries : e.Key = <<"k","e","y">> /\ e.Line = 0 /\ e.IsSecret
    /\ \E e \in CreatedEntries : e.Key = <<"A">> /\ e.Line > 0 /\ ~e.IsSecret

-----------------------------------------------------------------------------
(* Claims about the ChangeStack (SpecStack) *)

\* The changes at or before the cursor of the stack a call started from
KeptBefore(pre) == SubSeq(pre.changes, 1, pre.current + 1)

\* C1: after any sequence of Push, Undo, Redo and Clear on a stack created
\* with capacity >= 1, -1 <= current <= len(changes)-1 and len(changes) <= capacity.
CursorWithinHistory ==
    /\ -1 <= changeStack.current
    /\ changeStack.current <= Len(changeStack.changes) - 1
    /\ Len(changeStack.changes) <= changeStack.maxSize

\* C1 witness: a Push onto a full stack whose cursor was at the newest change.
PushedOntoFullStack ==
    /\ result.op = "Push"
    /\ Len(result.pre.changes) = result.pre.maxSize
    /\ result.pre.current = result.pre.maxSize - 1

\* C3: right after a Push, CanRedo is false, the cursor points at the pushed
\* change, and the history before it is made of the changes that were at or
\* before the old cursor, in order: nothing from beyond the old cursor is left.
PushDiscardsRedoTail ==
    result.op = "Push" =>
        LET kept == KeptBefore(result.pre)
            n == Len(changeStack.changes)
        IN /\ ~CanRedo(changeStack)
           /\ changeStack.current = n - 1
           /\ n >= 1
           /\ changeStack.changes[n] = result.change
           /\ n - 1 <= Len(kept)
           /\ SubSeq(changeStack.changes, 1, n - 1)
                = SubSeq(kept, Len(kept) - (n - 1) + 1, Len(kept))

\* C3 witness: push(A); push(B); undo(); push(C): a Push made with one change
\* beyond the cursor, leaving a history of two.
PushedAfterUndo ==
    /\ result.op = "Push"
    /\ Len(result.pre.changes) = 2
    /\ result.pre.current = 0
    /\ Len(changeStack.changes) = 2

\* C4: when a Push makes the history exceed the capacity, exactly the oldest
\* change is dropped, the others keep their order, and the cursor, one less
\* than it was after the append, still points at the change just pushed.
PushEvictsOldest ==
    (result.op = "Push" /\ Len(KeptBefore(result.pre)) + 1 > changeStack.maxSize) =>
        LET kept == KeptBefore(result.pre)
        IN /\ changeStack.changes = SubSeq(kept, 2, Len(kept)) \o <<result.change>>
           /\ changeStack.current = (result.pre.current + 1) - 1
           /\ changeStack.changes[changeStack.current + 1] = result.change

\* C4 witness: an evicting Push on a stack of capacity at least two.
PushedWithEviction ==
    /\ result.op = "Push"
    /\ Len(KeptBefore(result.pre)) + 1 > changeStack.maxSize
    /\ changeStack.maxSize >= 2

\* C11: Undo on a stack with current < 0 returns nothing and leaves the stack
\* as it was; otherwise it returns the change stored at current, moves the
\* cursor back by exactly one and leaves the stored changes as they were.
UndoStepsBack ==
    result.op = "Undo" =>
        IF result.pre.current < 0
        THEN /\ ~result.ok
             /\ result.change = NoChange
             /\ changeStack = result.pre
        ELSE /\ result.ok
             /\ result.change = result.pre.changes[result.pre.current + 1]
             /\ changeStack.current = result.pre.current - 1
             /\ changeStack.changes = result.pre.changes
             /\ changeStack.maxSize = result.pre.maxSize

\* C11 witness: an Undo that returned a change with an older one below it and
\* an undone one above it.
UndidInTheMiddle ==
    /\ result.op = "Undo"
    /\ result.ok
    /\ result.pre.current >= 1
    /\ result.pre.current < Len(result.pre.changes) - 1

\* C12: Redo on a stack with current = len-1 returns nothing and leaves the
\* stack as it was; otherwise it moves the cursor forward by exactly one,
\* returns the change now at the cursor and leaves the stored changes as they
\* were.
RedoStepsForward ==
    result.op = "Redo" =>
        IF result.pre.current = Len(result.pre.changes) - 1
        THEN /\ ~result.ok
             /\ result.change = NoChange
             /\ changeStack = result.pre
        ELSE /\ result.ok
             /\ changeStack.current = result.pre.current + 1
             /\ result.change = changeStack.changes[changeStack.current + 1]
             /\ changeStack.changes = result.pre.changes
             /\ changeStack.maxSize = result.pre.maxSize

\* C12 witness: a Redo that returned a change while a later undone change was
\* still ahead of it.
RedidWithMoreAhead ==
    /\ result.op = "Redo"
    /\ result.ok
    /\ changeStack.current < Len(changeStack.changes) - 1
    /\ result.change # changeStack.changes[Len(changeStack.changes)]

\* C13: in every reachable stack, CanUndo is true exactly when the next Undo
\* would return a change, CanRedo exactly when the next Redo would, and a
\* call of either returns that answer and leaves the stack as it was.
CanUndoCanRedoArePure ==
    /\ CanUndo(changeStack) <=> Undo(changeStack).ok
    /\ CanRedo(changeStack) <=> Redo(changeStack).ok
    /\ result.op = "CanUndo" =>
          /\ changeStack = result.pre
          /\ result.ok <=> Undo(changeStack).ok
    /\ result.op = "CanRedo" =>
          /\ changeStack = result.pre
          /\ result.ok <=> Redo(changeStack).ok

\* C13 witness: CanRedo asked at the head of a history that can be undone.
AskedCanRedoAtHead ==
    /\ result.op = "CanRedo"
    /\ ~result.ok
    /\ CanUndo(changeStack)
    /\ changeStack.current = Len(changeStack.changes) - 1

-----------------------------------------------------------------------------
(* Claims about WriteFile (SpecWrite) *)

\* The slot of the path the call in progress writes
Slot == disk[wf.path]

Returned(error) == wf.pc = "done" /\ wf.err = error

\* C6: a WriteFile that fails at any step leaves the target as it was before
\* the call (and so does one still running); the target is only ever replaced
\* by the fully written temp file, by the rename.
FailedWriteLeavesTarget ==
    wf.pc # "idle" =>
        /\ (wf.pc # "done" \/ wf.err # "") => Slot.target = wf.pre.target
        /\ Returned("") =>
              /\ Slot.target = File(Serialize(wf.entries))
              /\ wf.trace[Len(wf.trace)] = [step |-> "rename", failed |-> FALSE]

\* C6 witness: a call that failed in the middle of writing the entries of a
\* document that differs from the file on disk.
FailedWhileWriting ==
    /\ Returned("write")
    /\ wf.pre.target.exists
    /\ wf.pre.target.data # Serialize(wf.entries)
    /\ Slot.tmp.exists
    /\ Slot.tmp.data # <<>>

\* C7: if the rename fails, the original file is as it was before the write
\* and no {path}.tmp is left when the call returns.
RenameFailureCleansUp ==
    Returned("rename") => (Slot.target = wf.pre.target /\ ~Slot.tmp.exists)

\* C7 witness: a call on an existing file, with entries written, whose rename failed.
RenameFailed ==
    /\ Returned("rename")
    /\ wf.pre.target.exists
    /\ wf.entries # <<>>
    /\ wf.pre.target.data # Serialize(wf.entries)

\* C8: the backup step is the first step of every call and has succeeded
\* before the temp file is created; if it fails, the call returns the error
\* with neither the temp file nor the target touched.
BackupBeforeTemp ==
    /\ wf.trace # <<>> => wf.trace[1].step = "backup"
    /\ \A i \in 1..Len(wf.trace) :
          wf.trace[i].step = "create" => (i > 1 /\ ~wf.trace[1].failed)
    /\ (wf.trace # <<>> /\ wf.trace[1].failed) =>
          /\ Len(wf.trace) = 1
          /\ Returned("backup")
          /\ Slot.tmp = wf.pre.tmp
          /\ Slot.target = wf.pre.target

\* C8 witness: a call whose backup copy failed part-way.
BackupFailed ==
    /\ Returned("backup")
    /\ Slot.backups # wf.pre.backups

\* C9: after a successful WriteFile to a path whose file existed before the
\* call, some {path}.backup.{timestamp} holds the content the target had just
\* before that write.
BackupHoldsPriorContent ==
    (Returned("") /\ wf.pre.target.exists) =>
        \E t \in Times : Slot.backups[t] = File(wf.pre.target.data)

\* C9 witness: a successful write that changed an existing file.
WroteOverExisting ==
    /\ Returned("")
    /\ wf.pre.target.exists
    /\ wf.pre.target.data # Slot.target.data

\* C20: CreateBackup on a path that does not exist returns success and
\* creates no file: a WriteFile of a new path passes its backup step without
\* error, leaves no backup behind, and succeeds when its own I/O calls do.
NewPathNeedsNoBackup ==
    (wf.pc # "idle" /\ ~wf.pre.target.exists) =>
        /\ wf.trace # <<>> => wf.trace[1] = [step |-> "backup", failed |-> FALSE]
        /\ Slot.backups = wf.pre.backups
        /\ \A t \in Times : ~Slot.backups[t].exists
        /\ (wf.pc = "done" /\ \A i \in 2..Len(wf.trace) : ~wf.trace[i].failed) =>
              /\ Returned("")
              /\ Slot.target = File(Serialize(wf.entries))

\* C20 witness: the first WriteFile of a new path returned nil.
WroteNewPath ==
    /\ Returned("")
    /\ ~wf.pre.target.exists
    /\ Slot.target.exists

-----------------------------------------------------------------------------
(* Undo and redo in the application (Spec) *)

\* The record of prior kept for the change Undo returns, and for the one Redo
\* returns
UndoneRecord == prior[changeStack.current + 1]

RedoneRecord == prior[changeStack.current + 2]

\* The step leaves every document but the one of this path as it is
OnlyTouches(path) ==
    \A f \in 1..Len(envFiles) :
        envFiles[f].Path # path => envFiles'[f] = envFiles[f]

\* C2: the inverse law. When the current document is the one a change was
\* recorded on, in the state that action left it in, an undo of that change
\* that is written through gives the document the exact state it had before
\* the action (same entries, same order); a redo from the state before the
\* action gives the state after it.
UndoRedoInverseLaw ==
    [][/\ ( /\ KeyUndo
            /\ Undo(changeStack).ok
            /\ UndoneRecord.path = CurrentEnvFile.Path
            /\ CurrentEnvFile.Entries = UndoneRecord.after
            /\ failures' = failures )
          => envFiles'[currentFileIndex].Entries = UndoneRecord.before
       /\ ( /\ KeyRedo
            /\ Redo(changeStack).ok
            /\ RedoneRecord.path = CurrentEnvFile.Path
            /\ CurrentEnvFile.Entries = RedoneRecord.before
            /\ failures' = failures )
          => envFiles'[currentFileIndex].Entries = RedoneRecord.after]_vars

\* C5: the history is per document. An undo or a redo modifies no document
\* other than the one its change was recorded for.
UndoRedoStaysInFile ==
    [][/\ (KeyUndo /\ Undo(changeStack).ok)
          => OnlyTouches(Undo(changeStack).change.FilePath)
       /\ (KeyRedo /\ Redo(changeStack).ok)
          => OnlyTouches(Redo(changeStack).change.FilePath)]_vars

\* C10: an undo or a redo whose WriteFile returns an error leaves the
\* documents in memory as they were before the key was pressed.
FailedUndoRedoLeavesDocument ==
    [][((KeyUndo \/ KeyRedo) /\ failures' = failures + 1)
          => envFiles' = envFiles]_vars

-----------------------------------------------------------------------------
(* Claims about the EnvFile primitives (SpecDoc) *)

\* The positions of the KeyValue entries with this key
Matches(entries, key) ==
    {i \in 1..Len(entries) : entries[i].Type = KeyValueEntry /\ entries[i].Key = key}

\* The first of a non-empty set of positions
First(hits) == CHOOSE i \in hits : \A j \in hits : i <= j

\* C15: UpdateEntry(key, v) sets only the Value of the first KeyValue entry
\* with the key, leaves every other entry, every other field and the order as
\* they were, and returns true; with no such entry it returns false and the
\* document is as it was.
UpdateEntryTouchesFirstMatchOnly ==
    result.op = "UpdateEntry" =>
        LET pre == result.pre
            post == envFiles[1].Entries
            hits == Matches(pre, result.key)
        IN IF hits = {}
           THEN ~result.ok /\ post = pre
           ELSE /\ result.ok
                /\ Len(post) = Len(pre)
                /\ \A i \in 1..Len(pre) :
                      IF i = First(hits)
                      THEN /\ post[i].Value = result.value
                           /\ [post[i] EXCEPT !.Value = pre[i].Value] = pre[i]
                      ELSE post[i] = pre[i]

\* C15 witness: an update of a key the document holds twice, with a new value.
UpdatedDuplicateKey ==
    /\ result.op = "UpdateEntry"
    /\ Cardinality(Matches(result.pre, result.key)) >= 2
    /\ \A i \in Matches(result.pre, result.key) : result.pre[i].Value # result.value

\* C16: DeleteEntry(key) removes exactly the first KeyValue entry with the
\* key, keeps every other entry (later duplicates, comments, blanks) in order,
\* and returns true; with no such entry it returns false and the document is
\* as it was.
DeleteEntryRemovesFirstMatchOnly ==
    result.op = "DeleteEntry" =>
        LET pre == result.pre
            post == envFiles[1].Entries
            hits == Matches(pre, result.key)
        IN IF hits = {}
           THEN ~result.ok /\ post = pre
           ELSE /\ result.ok
                /\ Len(post) = Len(pre) - 1
                /\ \A i \in 1..Len(post) :
                      post[i] = IF i < First(hits) THEN pre[i] ELSE pre[i + 1]

\* C16 witness: a delete of a key held twice, with different values, in a
\* document that also holds a comment or a blank line.
DeletedDuplicateKey ==
    /\ result.op = "DeleteEntry"
    /\ \E i, j \in Matches(result.pre, result.key) :
          result.pre[i].Value # result.pre[j].Value
    /\ \E i \in 1..Len(result.pre) : result.pre[i].Type # KeyValueEntry

-----------------------------------------------------------------------------
(* Claims about what is shared in memory (SpecMem) *)

\* The positions of the history whose change a step keeps: all of them, or
\* for a step that pushes, those at or before the cursor
KeptPositions ==
    IF changeStack'.changes = changeStack.changes
    THEN 1..Len(changeStack.changes)
    ELSE 1..(changeStack.current + 1)

\* C14: a recorded Change is a value snapshot. Whatever the handlers do to the
\* live document after a change was pushed (UpdateEntry or DeleteEntry, of the
\* same entry too), every change still in the history keeps its type, its old
\* value and the key, value and flags of its entry.
ChangeIsSnapshot ==
    [][\A i \in KeptPositions :
          /\ changeStack'.changes[i] = changeStack.changes[i]
          /\ heap'[changeStack.changes[i].Entry] = heap[changeStack.changes[i].Entry]]_vars

\* C14 witness: the entry a recorded Add put into the document was later
\* updated to another value, the change being still in the history.
UpdatedAfterRecordedAdd ==
    /\ result.op = "Update"
    /\ \E i \in 1..(Len(changeStack.changes) - 1) :
          /\ changeStack.changes[i].Type = ChangeTypeAdd
          /\ heap[changeStack.changes[i].Entry].Key = result.key
          /\ heap[changeStack.changes[i].Entry].Value # result.value
          /\ \A j \in 1..Len(result.pre) :
                result.pre[j].Key = result.key => j = Len(result.pre)

\* C17: the clone taken at load never aliases the live document. No add,
\* update, delete, undo or redo on the live document changes an entry of the
\* clone or the number of its entries.
CloneIsNeverTouched ==
    [][/\ originalStates' = originalStates
       /\ View(heap', originalStates'[1].Entries) = OriginalView]_vars

\* C17 witness: after an undo, the live document holds an entry of the loaded
\* document with another value than at load, next to an entry that the undo
\* re-inserted.
LiveDivergedFromClone ==
    /\ result.op = "Undo"
    /\ \E i \in 1..Len(LiveEntries) :
          /\ LiveEntries[i] <= Len(OriginalView)
          /\ LiveView[i].Value # OriginalView[LiveEntries[i]].Value
    /\ \E j \in 1..Len(LiveEntries) : LiveEntries[j] > 2 * Len(OriginalView)

-----------------------------------------------------------------------------
(* Claims about RestoreBackup (SpecRestore) *)

\* The slot of the path the call in progress restores
RestoreSlot == disk[rf.path]

\* The call has run this step, with this result
Ran(step, failed) ==
    \E i \in 1..Len(rf.trace) : rf.trace[i] = [step |-> step, failed |-> failed]

\* A pre-restore sibling holds the content the target had at the call
SafetyCopyHoldsPrior ==
    \E t \in Times : RestoreSlot.preRestore[t] = File(rf.pre.target.data)

\* C18: RestoreBackup on an existing target first writes a copy of the
\* target's content to {target}.backup.pre-restore.{timestamp} and only then
\* overwrites the target, with the bytes of the backup; when the safety copy
\* fails, it returns an error and the target is as it was.
RestoreKeepsPriorState ==
    (rf.pc # "idle" /\ rf.pre.target.exists) =>
        /\ \A i \in 1..Len(rf.trace) :
              rf.trace[i].step = "create" =>
                  \E j \in 1..(i - 1) : rf.trace[j] = [step |-> "safety", failed |-> FALSE]
        /\ Ran("safety", FALSE) => SafetyCopyHoldsPrior
        /\ RestoreSlot.target # rf.pre.target => SafetyCopyHoldsPrior
        /\ Ran("safety", TRUE) =>
              /\ rf.pc = "done"
              /\ rf.err = "safety"
              /\ RestoreSlot.target = rf.pre.target
        /\ (rf.pc = "done" /\ rf.err = "") =>
              RestoreSlot.target = File(RestoreSlot.backups[rf.backup].data)

\* C18 witness: a restore over an existing target that returned nil and
\* changed the target's content.
RestoredOverExisting ==
    /\ rf.pc = "done"
    /\ rf.err = ""
    /\ rf.pre.target.exists
    /\ RestoreSlot.target # rf.pre.target

-----------------------------------------------------------------------------
(* Claims about the export prefix (SpecParse) *)

NodeEnvLine ==
    <<"e","x","p","o","r","t"," ","N","O","D","E","_","E","N","V","=",
      "p","r","o","d","u","c","t","i","o","n">>

\* C31: the entry a pass of the loop appends for a key-value line is exported
\* exactly when the trimmed line begins with "export ", and its key is read
\* from the line without that prefix; the line export NODE_ENV=production
\* gives key NODE_ENV, value production, exported.
ExportedIffExportPrefix ==
    [][ Pass /\ KeyValueLine(PassLine) =>
            /\ Len(Appended) = 1
            /\ Appended[1].Type = KeyValueEntry
            /\ Appended[1].Exported = HasPrefix(TrimSpace(PassLine), ExportWord)
            /\ Appended[1].Key = Lhs(PassLine)
            /\ PassLine = NodeEnvLine =>
                   /\ Appended[1].Key = <<"N","O","D","E","_","E","N","V">>
                   /\ Appended[1].Value = <<"p","r","o","d","u","c","t","i","o","n">>
                   /\ Appended[1].Exported ]_vars

\* The line export NODE_ENV=production was parsed into its exported entry.
ParsedExportLine ==
    /\ result.op = "ReadFile"
    /\ result.lines = <<NodeEnvLine>>
    /\ Len(result.entries) = 1
    /\ result.entries[1].Key = <<"N","O","D","E","_","E","N","V">>
    /\ result.entries[1].Exported

-----------------------------------------------------------------------------
(* Claims about ListBackups (SpecList) *)

\* What follows {basename}.backup. in a name the glob matches
BackupSuffix(base, name) == SubSeq(name, Len(base \o BackupInfix) + 1, Len(name))

\* The siblings matching {basename}.backup.* whose suffix parses as a timestamp
ParsableBackups(base, names) ==
    {n \in names : /\ HasPrefix(n, base \o BackupInfix)
                   /\ ParseTime(BackupSuffix(base, n)).ok}

\* C19: ListBackups returns exactly the siblings matching {basename}.backup.*
\* whose suffix parses as YYYYMMDD-HHMMSS, each once, ordered strictly
\* newest-first by that timestamp; the others are omitted.
ListsParsableBackupsNewestFirst ==
    result.op = "ListBackups" =>
        LET l == result.backups
        IN /\ {l[i] : i \in 1..Len(l)} = ParsableBackups(disk.path, disk.names)
           /\ Len(l) = Cardinality(ParsableBackups(disk.path, disk.names))
           /\ \A i, j \in 1..Len(l) :
                 i < j => After(ParseTime(BackupSuffix(disk.path, l[i])).time,
                                ParseTime(BackupSuffix(disk.path, l[j])).time)

\* The same statement for the env file whose name does not itself hold
\* ".backup.", where Split cuts the name in two.
ListsParsableBackupsOfPlainName ==
    disk.path = EnvBase => ListsParsableBackupsNewestFirst

-----------------------------------------------------------------------------
(* internal/model/validation.go: FilterEntries and CompareWith *)

MaxQueryDocLen == 2

ToLowerChar(c) ==
    IF \E i \in DOMAIN UpperLetters : UpperLetters[i] = c
    THEN LowerLetters[CHOOSE i \in DOMAIN UpperLetters : UpperLetters[i] = c]
    ELSE c

\* strings.ToLower
ToLower(s) == [i \in 1..Len(s) |-> ToLowerChar(s[i])]

\* The loop of fuzzyMatch from text index ti and pattern index pi: the
\* pattern index it ends with
RECURSIVE FuzzyLoop(_, _, _, _)
FuzzyLoop(text, pattern, ti, pi) ==
    IF ti < Len(text) /\ pi < Len(pattern)
    THEN FuzzyLoop(text, pattern, ti + 1,
                   IF text[ti + 1] = pattern[pi + 1] THEN pi + 1 ELSE pi)
    ELSE pi

\* A match of the pattern as one piece of the text
fuzzyMatchContiguous(text, pattern) == Contains(text, pattern)

fuzzyMatch(text, pattern) ==
    IF pattern = <<>> THEN TRUE
    ELSE FuzzyLoop(text, pattern, 0, 0) = Len(pattern)

\* The first loop of FilterEntries: the key-value entries in order
KvEntries(entries) == SelectSeq(entries, LAMBDA e : e.Type = KeyValueEntry)

\* EnvFile.FilterEntries
FilterEntries(entries, query) ==
    IF query = <<>> THEN KvEntries(entries)
    ELSE SelectSeq(KvEntries(entries),
                   LAMBDA e : \/ fuzzyMatch(ToLower(e.Key), ToLower(query))
                              \/ fuzzyMatch(ToLower(e.Value), ToLower(query)))

FileDiff(key, currentValue, otherValue, onlyInCurrent, onlyInOther, different) ==
    [Key |-> key, CurrentValue |-> currentValue, OtherValue |-> otherValue,
     OnlyInCurrent |-> onlyInCurrent, OnlyInOther |-> onlyInOther,
     Different |-> different]

\* The map CompareWith fills from the entries: each assignment replaces the
\* value the key had
RECURSIVE EntriesMap(_, _, _)
EntriesMap(entries, i, map) ==
    IF i > Len(entries) THEN map
    ELSE IF entries[i].Type = KeyValueEntry
    THEN EntriesMap(entries, i + 1,
                    [k \in DOMAIN map \cup {entries[i].Key} |->
                        IF k = entries[i].Key THEN entries[i].Value ELSE map[k]])
    ELSE EntriesMap(entries, i + 1, map)

\* The keys of the current map alone
AllKeysOfCurrent(currentEntries, otherEntries) == DOMAIN currentEntries

AllKeys(currentEntries, otherEntries) == DOMAIN currentEntries \cup DOMAIN otherEntries

\* The body of the loop over allKeys for one key
DiffOf(key, currentEntries, otherEntries) ==
    LET hasCurrent == key \in DOMAIN currentEntries
        hasOther == key \in DOMAIN otherEntries
    IN IF hasCurrent /\ hasOther
       THEN FileDiff(key, currentEntries[key], otherEntries[key], FALSE, FALSE,
                     currentEntries[key] # otherEntries[key])
       ELSE IF hasCurrent
       THEN FileDiff(key, currentEntries[key], <<>>, TRUE, FALSE, FALSE)
       ELSE FileDiff(key, <<>>, otherEntries[key], FALSE, TRUE, FALSE)

\* The orders a range over a map with these keys can take
Orders(keys) ==
    {o \in [1..Cardinality(keys) -> keys] : \A i, j \in DOMAIN o : i # j => o[i] # o[j]}

CountOf(diffs, P(_)) == Cardinality({i \in DOMAIN diffs : P(diffs[i])})

\* EnvFile.CompareWith, the keys ranged over in this order
CompareWith(current, other, order) ==
    LET currentEntries == EntriesMap(current, 1, <<>>)
        otherEntries == EntriesMap(other, 1, <<>>)
        diffs == [i \in DOMAIN order |-> DiffOf(order[i], currentEntries, otherEntries)]
    IN [Differences |-> diffs,
        TotalKeys |-> Len(KvEntries(current)),
        MatchingKeys |-> CountOf(diffs, LAMBDA d : ~d.Different /\ ~d.OnlyInCurrent
                                                    /\ ~d.OnlyInOther),
        DifferentValues |-> CountOf(diffs, LAMBDA d : d.Different),
        OnlyInCurrent |-> CountOf(diffs, LAMBDA d : d.OnlyInCurrent),
        OnlyInOther |-> CountOf(diffs, LAMBDA d : d.OnlyInOther)]

NoCompare ==
    [Differences |-> <<>>, TotalKeys |-> 0, MatchingKeys |-> 0, DifferentValues |-> 0,
     OnlyInCurrent |-> 0, OnlyInOther |-> 0]

-----------------------------------------------------------------------------
(* SpecQuery: FilterEntries and CompareWith on two loaded documents *)

QueryEntries ==
    { Parsed(<<"A","P","I","_","K","E","Y">>, <<"a","b","C">>, 0),
      Parsed(<<"D","b">>, <<"X","1">>, 0),
      Parsed(KeyA, <<"1">>, 0),
      Parsed(KeyA, <<"2">>, 0),
      ParsedComment(0),
      ParsedBlank(0) }

OtherEntries ==
    { Parsed(<<"D","b">>, <<"X","1">>, 0),
      Parsed(KeyA, <<"1">>, 0),
      Parsed(KeyA, <<"2">>, 0) }

RECURSIVE SeqsUpTo(_, _)
SeqsUpTo(S, n) ==
    IF n = 0 THEN {<<>>}
    ELSE SeqsUpTo(S, n - 1)
         \cup {Append(s, e) : s \in {x \in SeqsUpTo(S, n - 1) : Len(x) = n - 1}, e \in S}

Queries ==
    { <<>>, <<"a","k">>, <<"A","K">>, <<"k","a">>, <<"x","1">>, <<"a","c">>,
      <<"1">>, <<"p","i","_">> }

QueryFrame(op, query, filtered, compare) ==
    [op |-> op, query |-> query, filtered |-> filtered, compare |-> compare]

InitQuery ==
    /\ \E d \in SeqsUpTo(QueryEntries, MaxQueryDocLen),
          o \in SeqsUpTo(OtherEntries, MaxQueryDocLen) :
           envFiles = <<EnvFile("f1", d), EnvFile("f2", o)>>
    /\ currentFileIndex = 1
    /\ result = QueryFrame("", <<>>, <<>>, NoCompare)
    /\ changeStack = NewChangeStack(0)
    /\ listView = <<>>
    /\ viewMode = "List"
    /\ err = ""
    /\ disk = [p \in Paths |-> NoDir]
    /\ clock = 0
    /\ wf = IdleFrame
    /\ prior = <<>>
    /\ failures = 0
    /\ edits = 0
    /\ heap = <<>>
    /\ originalStates = <<>>
    /\ rf = IdleRestore

QueryIdle == <<envFiles, changeStack, currentFileIndex, listView, viewMode, err, disk,
               clock, wf, prior, failures, edits, heap, originalStates, rf>>

\* ef.FilterEntries(query) on the current file
QueryFilter(query) ==
    /\ result' = QueryFrame("FilterEntries", query,
                            FilterEntries(envFiles[1].Entries, query), NoCompare)
    /\ UNCHANGED QueryIdle

\* ef.CompareWith(other) on the current file and the other one
QueryCompare ==
    /\ \E order \in Orders(AllKeys(EntriesMap(envFiles[1].Entries, 1, <<>>),
                                   EntriesMap(envFiles[2].Entries, 1, <<>>))) :
           result' = QueryFrame("CompareWith", <<>>, <<>>,
                                CompareWith(envFiles[1].Entries, envFiles[2].Entries,
                                            order))
    /\ UNCHANGED QueryIdle

NextQuery ==
    \/ \E query \in Queries : QueryFilter(query)
    \/ QueryCompare

SpecQuery == InitQuery /\ [][NextQuery]_vars

-----------------------------------------------------------------------------
(* Claims about FilterEntries and CompareWith (SpecQuery) *)

\* p is a subsequence of t: its characters appear in t in order
IsSubsequence(p, t) ==
    \E f \in [1..Len(p) -> 1..Len(t)] :
        /\ \A i, j \in 1..Len(p) : i < j => f[i] < f[j]
        /\ \A i \in 1..Len(p) : t[f[i]] = p[i]

\* C32: FilterEntries("") returns the key-value entries in document order;
\* for a non-empty query it returns, in document order, exactly the
\* key-value entries where the lowercased query is a subsequence of the
\* lowercased key or of the lowercased value.
FilterIsSubsequenceMatch ==
    result.op = "FilterEntries" =>
        LET q == ToLower(result.query)
            entries == envFiles[1].Entries
        IN result.filtered =
               SelectSeq(entries,
                         LAMBDA e : /\ e.Type = KeyValueEntry
                                    /\ \/ result.query = <<>>
                                       \/ IsSubsequence(q, ToLower(e.Key))
                                       \/ IsSubsequence(q, ToLower(e.Value)))

\* The query ak kept API_KEY, which holds a and k apart, and dropped another
\* key-value entry.
FilteredNonContiguous ==
    /\ result.op = "FilterEntries"
    /\ result.query = <<"A","K">>
    /\ Len(result.filtered) = 1
    /\ result.filtered[1].Key = <<"A","P","I","_","K","E","Y">>
    /\ Len(envFiles[1].Entries) = 2
    /\ envFiles[1].Entries[1].Type = KeyValueEntry
    /\ envFiles[1].Entries[1].Key = KeyA

\* The keys of the key-value entries of a document
KeysOf(entries) == {entries[i].Key : i \in {j \in DOMAIN entries :
                                                 entries[j].Type = KeyValueEntry}}

\* C33: CompareWith reports one record per key of the union of the two
\* documents' keys, each in exactly one of the four classes, and the four
\* counts add up to the number of keys in the union.
CompareCoversUnionOnce ==
    result.op = "CompareWith" =>
        LET c == result.compare
            d == c.Differences
            cur == KeysOf(envFiles[1].Entries)
            oth == KeysOf(envFiles[2].Entries)
        IN /\ Len(d) = Cardinality(cur \cup oth)
           /\ {d[i].Key : i \in DOMAIN d} = cur \cup oth
           /\ \A i \in DOMAIN d :
                 /\ d[i].OnlyInCurrent = (d[i].Key \in cur \ oth)
                 /\ d[i].OnlyInOther = (d[i].Key \in oth \ cur)
                 /\ d[i].Different => d[i].Key \in cur \cap oth
                 /\ ~(d[i].OnlyInCurrent /\ d[i].OnlyInOther)
           /\ c.OnlyInCurrent = Cardinality(cur \ oth)
           /\ c.OnlyInOther = Cardinality(oth \ cur)
           /\ c.MatchingKeys + c.DifferentValues = Cardinality(cur \cap oth)
           /\ c.MatchingKeys + c.DifferentValues + c.OnlyInCurrent + c.OnlyInOther
                  = Cardinality(cur \cup oth)

\* Two documents were compared whose keys fall into three of the classes:
\* one key only in the current one, one only in the other, one in both.
ComparedOverlappingDocs ==
    /\ result.op = "CompareWith"
    /\ Len(result.compare.Differences) = 3
    /\ result.compare.OnlyInCurrent = 1
    /\ result.compare.OnlyInOther = 1
    /\ result.compare.MatchingKeys = 1

\* C40: for every key of the current document, the current value CompareWith
\* reports is the value of the entry GetEntry returns for that key.
CompareReadsFirstOccurrence ==
    result.op = "CompareWith" =>
        \A i \in DOMAIN result.compare.Differences :
            LET d == result.compare.Differences[i]
            IN d.Key \in KeysOf(envFiles[1].Entries) =>
                   d.CurrentValue = GetEntry(envFiles[1].Entries, d.Key).Value

-----------------------------------------------------------------------------
(* internal/ui/views/list.go: the sort modes of the ListView, and           *)
(* internal/model/entry.go: Category                                        *)

MaxPresses == 4

SortModeAlphabetical == 0

SortModeByCategory == 1

SortModeByValueLength == 2

\* The characters of keys in the order of their bytes
AsciiOrder == DigitChars \o UpperLetters \o <<"_">> \o LowerLetters

Code(c) == CHOOSE i \in DOMAIN AsciiOrder : AsciiOrder[i] = c

\* Go's < on strings
RECURSIVE StringLess(_, _)
StringLess(a, b) ==
    IF b = <<>> THEN FALSE
    ELSE IF a = <<>> THEN TRUE
    ELSE IF a[1] = b[1]
    THEN StringLess(SubSeq(a, 2, Len(a)), SubSeq(b, 2, Len(b)))
    ELSE Code(a[1]) < Code(b[1])

\* findPrefix(key, prefixes) # -1
findPrefix(key, prefixes) == \E p \in prefixes : HasPrefix(key, p)

\* Entry.Category
Category(e) ==
    IF Len(e.Key) = 0 THEN <<"o","t","h","e","r">>
    ELSE IF findPrefix(e.Key, {<<"D","B","_">>, <<"D","A","T","A","B","A","S","E","_">>})
    THEN <<"d","a","t","a","b","a","s","e">>
    ELSE IF findPrefix(e.Key, {<<"A","W","S","_">>, <<"S","3","_">>})
    THEN <<"a","w","s">>
    ELSE IF findPrefix(e.Key, {<<"A","P","I","_">>, <<"H","T","T","P","_">>})
    THEN <<"a","p","i">>
    ELSE IF e.IsSecret THEN <<"s","e","c","r","e","t">>
    ELSE <<"o","t","h","e","r">>

\* The less function applySort hands to sort.Slice in each mode
SortLess(mode, a, b) ==
    CASE mode = SortModeAlphabetical -> StringLess(a.Key, b.Key)
      [] mode = SortModeByCategory ->
            IF Category(a) # Category(b) THEN StringLess(Category(a), Category(b))
            ELSE StringLess(a.Key, b.Key)
      [] mode = SortModeByValueLength -> Len(a.Value) > Len(b.Value)

\* ListView.applySort: sort.Slice is not stable, so the outcome is any
\* arrangement of the entries that is sorted by the mode's less function
applySort(entries, mode) ==
    {s \in {[i \in DOMAIN entries |-> entries[o[i]]] : o \in Orders(DOMAIN entries)} :
        \A i, j \in DOMAIN s : i < j => ~SortLess(mode, s[j], s[i])}

\* views.NewListView(entries) followed by SetFiles(envFiles, currentIndex).
\* Indices are Go's plus one; copyTargetIndex 0 is Go's -1.
NewListViewWithFiles(entries, files, index) ==
    [entries |-> entries, filteredEntries |-> entries, selected |-> 1,
     sortMode |-> SortModeAlphabetical, copyMode |-> FALSE, copyTargetIndex |-> 0,
     envFiles |-> files, currentIndex |-> index]

\* ListView.GetSelected
GetSelected(lv) ==
    IF lv.selected >= 1 /\ lv.selected <= Len(lv.filteredEntries)
    THEN lv.filteredEntries[lv.selected]
    ELSE NoEntry

\* The copy of the selected entry into the target document only
CopyIntoAlways(target, selected) ==
    AddEntry(target, Entry(KeyValueEntry, selected.Key, selected.Value, <<>>, 0,
                           FALSE, selected.IsSecret))

\* The copy of the selected entry in handleListKeys: the target document after
CopyInto(target, selected) ==
    IF GetEntry(target, selected.Key) = NoEntry
    THEN AddEntry(target, Entry(KeyValueEntry, selected.Key, selected.Value, <<>>, 0,
                                FALSE, selected.IsSecret))
    ELSE target

-----------------------------------------------------------------------------
(* SpecView: the list of the application with two files open: sorting,      *)
(* moving the selection, switching the file and copying the selected entry  *)

SortEntries ==
    { Parsed(KeyB, <<"1">>, 0),
      Parsed(<<"D","B","_","A">>, <<"2","2">>, 0),
      Parsed(KeyA, <<"3","3","3">>, 0) }

\* The documents of the first file: these entries, each at most once, in any
\* order
SortDocs ==
    {d \in SeqsUpTo(SortEntries, Cardinality(SortEntries)) :
        \A i, j \in DOMAIN d : i # j => d[i] # d[j]}

TargetDocs ==
    { <<>>,
      <<Parsed(KeyA, <<"9">>, 1)>>,
      <<ParsedComment(1), Parsed(KeyB, <<"1">>, 2)>> }

ViewFrame(op, presses, target) == [op |-> op, presses |-> presses, target |-> target]

InitView ==
    /\ \E d \in SortDocs, t \in TargetDocs :
           envFiles = <<EnvFile("f1", d), EnvFile("f2", t)>>
    /\ currentFileIndex = 1
    /\ listView = NewListViewWithFiles(FilterEntries(envFiles[1].Entries, <<>>),
                                       Len(envFiles), 1)
    /\ result = ViewFrame("NewMultiFile", 0, 0)
    /\ viewMode = "List"
    /\ err = ""
    /\ changeStack = NewChangeStack(ChangeStackCapacity)
    /\ disk = [p \in Paths |->
                  LET i == CHOOSE j \in 1..Len(FilePaths) : FilePaths[j] = p
                  IN [target |-> File(Serialize(envFiles[i].Entries)),
                      tmp |-> Absent, backups |-> NoBackups,
                      preRestore |-> NoBackups]]
    /\ clock = 0
    /\ wf = IdleFrame
    /\ prior = <<>>
    /\ failures = 0
    /\ edits = 0
    /\ heap = <<>>
    /\ originalStates = envFiles
    /\ rf = IdleRestore

ViewIdle == <<changeStack, viewMode, clock, wf, prior, edits, heap, originalStates, rf>>

\* Key "s": handleListKeys passes it to ListView.Update, which calls
\* cycleSortMode; the slice sorted is the one entries names too
ViewSort ==
    /\ viewMode = "List"
    /\ ~listView.copyMode
    /\ result.presses < MaxPresses
    /\ \E sorted \in applySort(listView.filteredEntries, (listView.sortMode + 1) % 3) :
           listView' = [listView EXCEPT !.sortMode = (listView.sortMode + 1) % 3,
                                        !.filteredEntries = sorted,
                                        !.entries = sorted]
    /\ result' = ViewFrame("cycleSortMode", result.presses + 1, 0)
    /\ UNCHANGED <<envFiles, currentFileIndex, err, disk, failures>>
    /\ UNCHANGED ViewIdle

\* Keys "k" and "j"
ViewUp ==
    /\ viewMode = "List"
    /\ ~listView.copyMode
    /\ listView.selected > 1
    /\ listView' = [listView EXCEPT !.selected = listView.selected - 1]
    /\ result' = ViewFrame("Up", result.presses, 0)
    /\ UNCHANGED <<envFiles, currentFileIndex, err, disk, failures>>
    /\ UNCHANGED ViewIdle

ViewDown ==
    /\ viewMode = "List"
    /\ ~listView.copyMode
    /\ listView.selected < Len(listView.filteredEntries)
    /\ listView' = [listView EXCEPT !.selected = listView.selected + 1]
    /\ result' = ViewFrame("Down", result.presses, 0)
    /\ UNCHANGED <<envFiles, currentFileIndex, err, disk, failures>>
    /\ UNCHANGED ViewIdle

\* Keys "1".."9" outside copy mode: Model.SwitchToFile
ViewSwitch(idx) ==
    /\ viewMode = "List"
    /\ ~listView.copyMode
    /\ idx <= Len(envFiles)
    /\ currentFileIndex' = idx
    /\ listView' = NewListViewWithFiles(FilterEntries(envFiles[idx].Entries, <<>>),
                                        Len(envFiles), idx)
    /\ result' = ViewFrame("SwitchToFile", 0, 0)
    /\ UNCHANGED <<envFiles, err, disk, failures>>
    /\ UNCHANGED ViewIdle

\* Key "y": ListView.Update enters copy mode
ViewCopyKey ==
    /\ viewMode = "List"
    /\ ~listView.copyMode
    /\ listView.envFiles > 1
    /\ listView.selected >= 1 /\ listView.selected <= Len(listView.filteredEntries)
    /\ listView' = [listView EXCEPT !.copyMode = TRUE, !.copyTargetIndex = 0]
    /\ result' = ViewFrame("Copy", result.presses, 0)
    /\ UNCHANGED <<envFiles, currentFileIndex, err, disk, failures>>
    /\ UNCHANGED ViewIdle

\* Keys "esc" and "q" in copy mode
ViewCopyEsc ==
    /\ viewMode = "List"
    /\ listView.copyMode
    /\ listView' = [listView EXCEPT !.copyMode = FALSE, !.copyTargetIndex = 0]
    /\ result' = ViewFrame("CopyEsc", result.presses, 0)
    /\ UNCHANGED <<envFiles, currentFileIndex, err, disk, failures>>
    /\ UNCHANGED ViewIdle

\* Keys "1".."9" in copy mode naming another open file: the selected entry is
\* copied and the target written, which may fail. Any other digit leaves
\* everything as it is.
ViewCopyTo(idx) ==
    /\ viewMode = "List"
    /\ listView.copyMode
    /\ idx <= Len(envFiles) /\ idx # currentFileIndex
    /\ LET selected == GetSelected(listView)
           target == envFiles[idx]
           after == CopyInto(target.Entries, selected)
       IN IF selected = NoEntry \/ after = target.Entries
          THEN UNCHANGED <<envFiles, err, disk, failures>>
          ELSE \E plan \in HandlerPlans(after, disk[target.Path]) :
                  LET w == WriteFile(target.Path, after, disk[target.Path], clock, plan)
                      failed == w.frame.err # ""
                  IN /\ ~failed \/ failures < MaxFailures
                     /\ failures' = IF failed THEN failures + 1 ELSE failures
                     /\ envFiles' = [envFiles EXCEPT ![idx].Entries = after]
                     /\ disk' = [disk EXCEPT ![target.Path] = w.dir]
                     /\ err' = IF failed THEN w.frame.err ELSE err
    /\ listView' = [listView EXCEPT !.copyMode = FALSE, !.copyTargetIndex = 0]
    /\ result' = ViewFrame("CopyTo", result.presses, idx)
    /\ UNCHANGED currentFileIndex
    /\ UNCHANGED ViewIdle

NextView ==
    \/ ViewSort
    \/ ViewUp
    \/ ViewDown
    \/ \E idx \in 1..Len(FilePaths) : ViewSwitch(idx)
    \/ ViewCopyKey
    \/ ViewCopyEsc
    \/ \E idx \in 1..Len(FilePaths) : ViewCopyTo(idx)

SpecView == InitView /\ [][NextView]_vars

-----------------------------------------------------------------------------
(* Claims about the list (SpecView) *)

AlphabeticalByKey(l) == \A i, j \in DOMAIN l : i < j => ~StringLess(l[j].Key, l[i].Key)

GroupedByCategory(l) ==
    \A i, j, k \in DOMAIN l :
        i < j /\ j < k /\ Category(l[i]) = Category(l[k]) => Category(l[j]) = Category(l[i])

ShortestValueFirst(l) == \A i, j \in DOMAIN l : i < j => Len(l[i].Value) <= Len(l[j].Value)

LongestValueFirst(l) == \A i, j \in DOMAIN l : i < j => Len(l[i].Value) >= Len(l[j].Value)

\* C34: on a fresh list the first press of "s" sorts alphabetically by key,
\* the second groups by category, the third sorts by value length with the
\* shortest value first, and the fourth is alphabetical again.
SortCycleStartsAlphabetical ==
    LET l == listView.filteredEntries
    IN /\ result.presses = 1 => AlphabeticalByKey(l) /\ listView.sortMode = SortModeAlphabetical
       /\ result.presses = 2 => GroupedByCategory(l) /\ listView.sortMode = SortModeByCategory
       /\ result.presses = 3 => ShortestValueFirst(l) /\ listView.sortMode = SortModeByValueLength
       /\ result.presses = 4 => AlphabeticalByKey(l) /\ listView.sortMode = SortModeAlphabetical

\* The cycle the list goes through: by category after the first press, by
\* value length with the longest value first after the second, alphabetical
\* after the third, and so on.
SortCycleStartsByCategory ==
    LET l == listView.filteredEntries
    IN /\ listView.sortMode = result.presses % 3
       /\ result.presses % 3 = 1 => GroupedByCategory(l)
       /\ result.presses % 3 = 2 => LongestValueFirst(l)
       /\ result.presses > 0 /\ result.presses % 3 = 0 => AlphabeticalByKey(l)

HasKey(entries, key) ==
    \E i \in DOMAIN entries : entries[i].Type = KeyValueEntry /\ entries[i].Key = key

\* C35: a copy of the selected entry to another open file appends an entry
\* with the same key and value to the target when the target has no
\* key-value entry with that key, leaves the target as it is when it has
\* one, and never changes the source file.
CopyAppendsOnlyNewKeys ==
    [][ result'.op = "CopyTo" /\ GetSelected(listView) # NoEntry =>
            LET selected == GetSelected(listView)
                source == envFiles[currentFileIndex]
                before == envFiles[result'.target].Entries
                after == envFiles'[result'.target].Entries
            IN /\ envFiles'[currentFileIndex] = source
               /\ disk'[source.Path] = disk[source.Path]
               /\ result'.target # currentFileIndex
               /\ IF HasKey(before, selected.Key)
                  THEN after = before /\ disk' = disk
                  ELSE /\ Len(after) = Len(before) + 1
                       /\ SubSeq(after, 1, Len(before)) = before
                       /\ after[Len(after)].Type = KeyValueEntry
                       /\ after[Len(after)].Key = selected.Key
                       /\ after[Len(after)].Value = selected.Value ]_vars

\* An entry was copied into a file that holds another key, and before that a
\* copy of a key the target holds already had left the target alone.
CopiedNewKeyOnly ==
    /\ result.op = "CopyTo"
    /\ result.target = 2
    /\ currentFileIndex = 1
    /\ Len(envFiles[2].Entries) = 2
    /\ envFiles[2].Entries[1].Key = KeyA
    /\ envFiles[2].Entries[1].Value = <<"9">>
    /\ envFiles[2].Entries[2].Key = KeyB
    /\ HasKey(envFiles[1].Entries, KeyA)
    /\ HasKey(envFiles[1].Entries, KeyB)

-----------------------------------------------------------------------------
(* Claims about Undo followed by Redo (SpecStack) *)

\* C36: a Redo called right after a successful Undo returns the change the
\* Undo returned and leaves the cursor and the history as they were before
\* the Undo; an Undo called right after a successful Redo returns the change
\* the Redo returned and leaves the cursor and the history as they were
\* before the Redo.
UndoThenRedoRestoresStack ==
    [][ /\ result.op = "Undo" /\ result.ok /\ result'.op = "Redo" =>
            /\ result'.ok
            /\ result'.change = result.change
            /\ changeStack' = result.pre
        /\ result.op = "Redo" /\ result.ok /\ result'.op = "Undo" =>
            /\ result'.ok
            /\ result'.change = result.change
            /\ changeStack'.current = result.pre.current
            /\ changeStack' = result.pre ]_vars

\* A Redo has just brought back, in the middle of a history of three changes,
\* the change that differs from its neighbours.
RedidTheMiddleChange ==
    /\ result.op = "Redo"
    /\ result.ok
    /\ Len(changeStack.changes) = 3
    /\ changeStack.current = 1
    /\ result.change = changeStack.changes[2]
    /\ changeStack.changes[1] # changeStack.changes[2]
    /\ changeStack.changes[3] # changeStack.changes[2]

-----------------------------------------------------------------------------
(* Claims about the safety copies of RestoreBackup (SpecList) *)

PreRestoreInfix ==
    <<".","b","a","c","k","u","p",".","p","r","e","-","r","e","s","t","o","r","e",".">>

\* The safety copies of the env file among the files next to it
SafetyCopies == {n \in disk.names : HasPrefix(n, disk.path \o PreRestoreInfix)}

\* C38: ListBackups for a path never returns a safety copy
\* {path}.backup.pre-restore.{timestamp} of that path, so the list is the
\* one the directory without the safety copies gives.
SafetyCopiesAreNotListed ==
    result.op = "ListBackups" =>
        /\ \A i \in DOMAIN result.backups : result.backups[i] \notin SafetyCopies
        /\ result.backups \in ListBackups(disk.path, disk.names \ SafetyCopies)

\* The backups were listed while a safety copy lay next to two backups.
ListedBesideSafetyCopy ==
    /\ result.op = "ListBackups"
    /\ SafetyCopies # {}
    /\ Len(result.backups) = 2

-----------------------------------------------------------------------------
(* Claims about the temporary file of WriteFile (SpecWrite) *)

\* C39: when WriteFile has returned an error, whichever step failed, no
\* {path}.tmp is left on disk.
FailedWriteLeavesNoTemp ==
    (wf.pc = "done" /\ wf.err # "") => ~Slot.tmp.exists

\* The same for the calls that entered with no {path}.tmp on disk and failed
\* before the temp file was created or at the rename.
FailedOutsideWritingLeavesNoTemp ==
    (Returned("backup") \/ Returned("create") \/ Returned("rename")) /\ ~wf.pre.tmp.exists
        => ~Slot.tmp.exists

-----------------------------------------------------------------------------
(* internal/ui/views/backup.go: the BackupView.  In SpecBackupView the      *)
(* variable listView holds the Model's backupView and heap the array its    *)
(* backups slice points into; backups is the length of that slice and       *)
(* selected counts from 0 as in the code.                                   *)

BackupViewModeList == 0

BackupViewModeConfirmRestore == 1

BackupViewModeConfirmDelete == 2

\* NewBackupView(filePath, backups), backups of length n
NewBackupView(filePath, n) ==
    [filePath |-> filePath, backups |-> n, selected |-> 0,
     mode |-> BackupViewModeList, message |-> ""]

\* The backups the view shows
Displayed == SubSeq(heap, 1, listView.backups)

\* append(backups[:selected], backups[selected+1:]...) on an array that holds
\* n backups: the elements behind selected move down one place in the array
\* itself, the last one stays where it was
RemoveInPlace(array, n, selected) ==
    [i \in DOMAIN array |->
        IF i >= selected + 1 /\ i <= n - 1 THEN array[i + 1] ELSE array[i]]

\* The view confirmDelete works on: a copy, as its receiver is a value. What
\* it assigns to the copy is lost when it returns; what it writes through
\* the slice is not.
confirmDelete(bv, array, names) ==
    IF bv.selected >= 0 /\ bv.selected < bv.backups
    THEN LET backup == array[bv.selected + 1]
         IN IF backup \in names
            THEN [ok |-> TRUE, removed |-> backup, names |-> names \ {backup},
                  array |-> RemoveInPlace(array, bv.backups, bv.selected)]
            ELSE [ok |-> FALSE, removed |-> backup, names |-> names, array |-> array]
    ELSE [ok |-> FALSE, removed |-> <<>>, names |-> names, array |-> array]

\* time.Now() formatted, when a backup is restored
RestoreStamp == <<"2","0","2","4","0","1","0","1","-","1","2","0","0","0","0">>

-----------------------------------------------------------------------------
(* SpecBackupView: the backup manager of one env file, opened with "b"      *)

BackupNames ==
    {<<".","e","n","v",".","b","a","c","k","u","p",".","2","0","2","4","0","1","0","1","-","1","2","0","0","0","0">>,
     <<".","e","n","v",".","b","a","c","k","u","p",".","2","0","2","4","0","1","0","1","-","1","2","0","0","0","1">>,
     <<".","e","n","v",".","b","a","c","k","u","p",".","2","0","2","4","0","2","2","9","-","2","3","5","9","5","9">>}

BvFrame(op, ok, removed, pre) == [op |-> op, ok |-> ok, removed |-> removed, pre |-> pre]

InitBackupView ==
    /\ \E s \in SUBSET BackupNames : disk = [path |-> EnvBase, names |-> {EnvBase} \cup s]
    /\ listView = NewBackupView(EnvBase, 0)
    /\ heap = <<>>
    /\ viewMode = "List"
    /\ result = BvFrame("", FALSE, <<>>, <<>>)
    /\ clock = 0
    /\ wf = IdleFrame
    /\ rf = IdleRestore
    /\ changeStack = NewChangeStack(0)
    /\ envFiles = <<>>
    /\ currentFileIndex = 1
    /\ err = ""
    /\ prior = <<>>
    /\ failures = 0
    /\ edits = 0
    /\ originalStates = <<>>

BvIdle == <<changeStack, envFiles, currentFileIndex, err, clock, wf, rf, prior,
            failures, edits, originalStates>>

\* Key "b" in the list: ListBackups and NewBackupView
BvOpen ==
    /\ viewMode = "List"
    /\ \E l \in ListBackups(disk.path, disk.names) :
           /\ heap' = l
           /\ listView' = NewBackupView(disk.path, Len(l))
    /\ viewMode' = "Backup"
    /\ result' = BvFrame("NewBackupView", TRUE, <<>>, <<>>)
    /\ UNCHANGED disk
    /\ UNCHANGED BvIdle

\* Keys "esc" and "q" in the backup manager, in any of its modes: the Model
\* returns to the list
BvLeave ==
    /\ viewMode = "Backup"
    /\ viewMode' = "List"
    /\ result' = BvFrame("Leave", TRUE, <<>>, Displayed)
    /\ UNCHANGED <<listView, heap, disk>>
    /\ UNCHANGED BvIdle

BvUp ==
    /\ viewMode = "Backup"
    /\ listView.mode = BackupViewModeList
    /\ listView.selected > 0
    /\ listView' = [listView EXCEPT !.selected = listView.selected - 1]
    /\ result' = BvFrame("up", TRUE, <<>>, Displayed)
    /\ UNCHANGED <<viewMode, heap, disk>>
    /\ UNCHANGED BvIdle

BvDown ==
    /\ viewMode = "Backup"
    /\ listView.mode = BackupViewModeList
    /\ listView.selected < listView.backups - 1
    /\ listView' = [listView EXCEPT !.selected = listView.selected + 1]
    /\ result' = BvFrame("down", TRUE, <<>>, Displayed)
    /\ UNCHANGED <<viewMode, heap, disk>>
    /\ UNCHANGED BvIdle

\* Keys "r" and "d" in list mode
BvKeyR ==
    /\ viewMode = "Backup"
    /\ listView.mode = BackupViewModeList
    /\ listView.backups > 0
    /\ listView' = [listView EXCEPT !.mode = BackupViewModeConfirmRestore]
    /\ result' = BvFrame("r", TRUE, <<>>, Displayed)
    /\ UNCHANGED <<viewMode, heap, disk>>
    /\ UNCHANGED BvIdle

BvKeyD ==
    /\ viewMode = "Backup"
    /\ listView.mode = BackupViewModeList
    /\ listView.backups > 0
    /\ listView' = [listView EXCEPT !.mode = BackupViewModeConfirmDelete]
    /\ result' = BvFrame("d", TRUE, <<>>, Displayed)
    /\ UNCHANGED <<viewMode, heap, disk>>
    /\ UNCHANGED BvIdle

\* Keys "n" and "N" in a confirm mode
BvNo ==
    /\ viewMode = "Backup"
    /\ listView.mode # BackupViewModeList
    /\ listView' = [listView EXCEPT !.mode = BackupViewModeList]
    /\ result' = BvFrame("n", TRUE, <<>>, Displayed)
    /\ UNCHANGED <<viewMode, heap, disk>>
    /\ UNCHANGED BvIdle

\* Key "y" in confirm-delete mode: Update returns its own bv and the command
\* of bv.confirmDelete()
BvYesDelete ==
    /\ viewMode = "Backup"
    /\ listView.mode = BackupViewModeConfirmDelete
    /\ LET done == confirmDelete(listView, heap, disk.names)
       IN /\ disk' = [disk EXCEPT !.names = done.names]
          /\ heap' = done.array
          /\ result' = BvFrame("confirmDelete", done.ok, done.removed, Displayed)
    /\ UNCHANGED <<listView, viewMode>>
    /\ UNCHANGED BvIdle

\* Key "y" in confirm-restore mode: bv.confirmRestore(), on a copy as well.
\* RestoreBackup fails when the backup is gone, else it writes the safety
\* copy next to the env file, which exists.
BvYesRestore ==
    /\ viewMode = "Backup"
    /\ listView.mode = BackupViewModeConfirmRestore
    /\ LET ok == /\ listView.selected >= 0 /\ listView.selected < listView.backups
                 /\ heap[listView.selected + 1] \in disk.names
       IN /\ disk' = IF ok
                     THEN [disk EXCEPT !.names =
                              @ \cup {disk.path \o BackupInfix
                                      \o <<"p","r","e","-","r","e","s","t","o","r","e",".">>
                                      \o RestoreStamp}]
                     ELSE disk
          /\ result' = BvFrame("confirmRestore", ok, <<>>, Displayed)
    /\ UNCHANGED <<listView, viewMode, heap>>
    /\ UNCHANGED BvIdle

NextBackupView ==
    \/ BvOpen
    \/ BvLeave
    \/ BvUp
    \/ BvDown
    \/ BvKeyR
    \/ BvKeyD
    \/ BvNo
    \/ BvYesDelete
    \/ BvYesRestore

SpecBackupView == InitBackupView /\ [][NextBackupView]_vars

-----------------------------------------------------------------------------
(* Claims about the backup manager (SpecBackupView) *)

\* C37: after "y" in confirm-delete mode whose removal succeeded, the view
\* is in list mode, it shows the list it showed before without the deleted
\* backup, and the selection is within that list.
ConfirmedDeleteUpdatesView ==
    result.op = "confirmDelete" /\ result.ok =>
        /\ listView.mode = BackupViewModeList
        /\ Len(Displayed) = Len(result.pre) - 1
        /\ \A i \in DOMAIN Displayed : Displayed[i] # result.removed
        /\ listView.selected >= 0
        /\ listView.selected < Len(Displayed) \/ Displayed = <<>>

\* What the removal does do: the file is gone from the directory.
ConfirmedDeleteRemovesFile ==
    result.op = "confirmDelete" /\ result.ok => result.removed \notin disk.names


=============================================================================
